---- MODULE Spec2Model ----
(***************************************************************************)
(* Verification model of the ZeRO stage-3 wrapper                          *)
(* (colossalai/zero/zero_stage3_develop.py), the stateful tensors of       *)
(* colossalai/zero/sharded_param and the strategy filter of the            *)
(* auto-parallel node handler.                                             *)
(*                                                                         *)
(* Specifications:                                                         *)
(*   Spec     one rank's ZeroRedundancyLevel3Model hierarchy (a root and   *)
(*            one nested instance) driven by forward calls, the autograd   *)
(*            engine's hooks, no_sync scopes and zero_grad.                *)
(*   SpecGrad the gradient values of one sharded parameter on every rank   *)
(*            of the reduce-scatter group, in two runs fed the same        *)
(*            per-pass gradients: A inside no_sync() until its last pass,  *)
(*            B synced throughout.                                         *)
(*   SpecST   a StatefulTensor or ShardedTensor under its operations.      *)
(*   SpecNH   NodeHandler.register_strategy on the strategies its          *)
(*            generators yield.                                            *)
(* The variables of the other specifications stay parked under each one.   *)
(***************************************************************************)
EXTENDS Integers, Sequences, FiniteSets, TLC

VARIABLES
    fsdp,           \* ZeroRedundancyLevel3Model instance -> its attributes
    param,          \* managed Parameter -> its attributes
    reducer,        \* ReduceScatterBucketer: reductions enqueued, callback not yet run
    callbacks,      \* autograd engine: number of _final_backward_hook callbacks queued
    err,            \* an exception has been raised (state check, assert)
    call_stack,     \* forward() calls in progress, innermost last
    backward,       \* the autograd engine is running an outer-most backward
    grad_ready,     \* module -> a pre-backward hook of it fired in this backward
    out_hooks,      \* module -> pre-backward hooks registered on outputs, not yet fired
    scopes,         \* active no_sync() scopes, innermost last: the old_flags of each
    note            \* what the last step did, when it matters: raised, flushed, ...

zvars == <<fsdp, param, reducer, callbacks, err, call_stack, backward,
           grad_ready, out_hooks, scopes, note>>

VARIABLES
    rank_param,     \* run -> rank -> the parameter's grad and zero_saved_grad_shard
    grad_sync,      \* run -> _require_backward_grad_sync
    phase,          \* where the current pass stands: idle, backward, reduced; or done
    passes,         \* passes completed
    total           \* rank -> sum of the full local gradients autograd produced on it

gvars == <<rank_param, grad_sync, phase, passes, total>>

VARIABLES
    stensor,        \* the tensor object: its class, _state, _payload, _is_sharded
    st_raised       \* the exception the last operation raised, or "none"

stvars == <<stensor, st_raised>>

VARIABLES
    shard_option,       \* NodeHandler.shard_option
    mesh_shape,         \* NodeHandler.device_mesh.mesh_shape
    generated,          \* the strategies the generators yielded in register_strategy
    strategies_vector,  \* NodeHandler.strategies_vector
    nh_returned         \* register_strategy has returned

nhvars == <<shard_option, mesh_shape, generated, strategies_vector, nh_returned>>

VARIABLES
    rc_node,        \* update_resharding_cost: the handled node's predecessors and their vectors
    rc_strategy,    \* the strategy passed in: its operands, their specs, its resharding_costs
    rc_raised       \* the exception update_resharding_cost raised, or "none"

rcvars == <<rc_node, rc_strategy, rc_raised>>

VARIABLES
    emb_strategy,   \* embedding handler: the logical strategy the generator yielded
    emb_result,     \* post_process has returned, and the strategies it returned
    emb_vector,     \* register_strategy has returned, and the strategies_vector it left
    emb_raised      \* the exception that left post_process / register_strategy, or "none"

embvars == <<emb_strategy, emb_result, emb_vector, emb_raised>>

VARIABLES
    ds_tensor,      \* dist-spec transforms: the logical tensor
    ds_local,       \* rank -> the tensor the rank holds
    ds_orig,        \* rank -> the tensor the rank held under the first spec
    ds_path,        \* the first spec and the specs handle_trans_spec was called with
    ds_outcome      \* "ok", or how the last handle_trans_spec ended otherwise

dsvars == <<ds_tensor, ds_local, ds_orig, ds_path, ds_outcome>>

VARIABLES
    ld_world_size,  \* load_sharded_optimizer: coordinator.world_size
    ld_checkpoint,  \* the state of one parameter as the checkpoint holds it
    ld_state,       \* rank -> optimizer.optim.state_dict()['state'] of that parameter
    ld_done         \* rank -> load_sharded_optimizer has returned on the rank

ldvars == <<ld_world_size, ld_checkpoint, ld_state, ld_done>>

VARIABLES
    sv_isfile,   \* save_sharded_optimizer: os.path.isfile(checkpoint)
    sv_sharded,  \* sharded_state: the shards, each the set of its param ids
    sv_pc,       \* rank -> where the rank is in save_sharded_optimizer
    sv_index,    \* rank -> the rank's CheckpointIndexFile (in memory)
    sv_written   \* the writes done under the checkpoint directory

svvars == <<sv_isfile, sv_sharded, sv_pc, sv_index, sv_written>>

VARIABLES
    sq_config,   \* CUDA streams: the flags of the instance
    sq_host,     \* parameter -> how far the backward of the host has come for it
    sq_final,    \* the final backward callback has run; the optimizer has stepped
    sq_cuda,     \* the work queued on each stream, the tensors in the bucketer
    sq_log,      \* the stream calls of the host, in program order
    sq_ran       \* the kernels the device has run

sqvars == <<sq_config, sq_host, sq_final, sq_cuda, sq_log, sq_ran>>

VARIABLES
    ag_world,                  \* autograd transforms: process_group.size()
    ag_spec,                   \* the dist spec the tensor is held under
    ag_use_autograd_function,  \* DistSpecManager._use_autograd_function
    ag_scopes,                 \* the number of no_grad() scopes entered and not left
    ag_tape,                   \* the TransformDistSpec nodes of the graph, oldest first
    ag_call,                   \* the last call of a placement handler
    ag_count,                  \* the calls of handle_trans_spec so far
    ag_outcome                 \* "ok", or the exception that ended the run

agvars == <<ag_world, ag_spec, ag_use_autograd_function, ag_scopes, ag_tape, ag_call,
            ag_count, ag_outcome>>

\* the variables of the subsystems modelled further below
morevars == <<rcvars, embvars, dsvars, ldvars, svvars, sqvars, agvars>>

vars == <<zvars, gvars, stvars, nhvars, morevars>>

Parked == "parked"
ParkZero ==
    /\ fsdp = Parked /\ param = Parked /\ reducer = Parked /\ callbacks = Parked
    /\ err = Parked /\ call_stack = Parked /\ backward = Parked
    /\ grad_ready = Parked /\ out_hooks = Parked /\ scopes = Parked /\ note = Parked
ParkGrad ==
    /\ rank_param = Parked /\ grad_sync = Parked /\ phase = Parked
    /\ passes = Parked /\ total = Parked
ParkST == stensor = Parked /\ st_raised = Parked
ParkNH ==
    /\ shard_option = Parked /\ mesh_shape = Parked /\ generated = Parked
    /\ strategies_vector = Parked /\ nh_returned = Parked
ParkRC == rc_node = Parked /\ rc_strategy = Parked /\ rc_raised = Parked
ParkEmb ==
    /\ emb_strategy = Parked /\ emb_result = Parked
    /\ emb_vector = Parked /\ emb_raised = Parked
ParkDS ==
    /\ ds_tensor = Parked /\ ds_local = Parked /\ ds_orig = Parked
    /\ ds_path = Parked /\ ds_outcome = Parked
ParkLd ==
    /\ ld_world_size = Parked /\ ld_checkpoint = Parked
    /\ ld_state = Parked /\ ld_done = Parked
ParkSv ==
    /\ sv_isfile = Parked /\ sv_sharded = Parked /\ sv_pc = Parked
    /\ sv_index = Parked /\ sv_written = Parked
ParkSq ==
    /\ sq_config = Parked /\ sq_host = Parked /\ sq_final = Parked
    /\ sq_cuda = Parked /\ sq_log = Parked /\ sq_ran = Parked
ParkAG ==
    /\ ag_world = Parked /\ ag_spec = Parked /\ ag_use_autograd_function = Parked
    /\ ag_scopes = Parked /\ ag_tape = Parked /\ ag_call = Parked
    /\ ag_count = Parked /\ ag_outcome = Parked
ParkMore == ParkRC /\ ParkEmb /\ ParkDS /\ ParkLd /\ ParkSv /\ ParkSq /\ ParkAG

(***************************************************************************)
(* Bounds of the model.                                                    *)
(***************************************************************************)
MaxOutHooks == 1    \* pre-backward hooks pending on one module's outputs
MaxAccum == 2    \* gradient contributions held in the tensors of the parameters
MaxCallbacks == 2   \* final backward callbacks queued on the engine

(***************************************************************************)
(* The module hierarchy: a root instance wrapping one nested instance.     *)
(* self.params of an instance are the parameters not already managed by a  *)
(* nested instance (__init__, lines 104-107).                              *)
(***************************************************************************)
Root == "root"
Modules == {"root", "child"}
ModuleOrder == <<"root", "child">>      \* self.modules(): self first
Params == {"rw", "cw"}
owner(p) == IF p = "rw" THEN "root" ELSE "child"
params(m) == {p \in Params : owner(p) = m}
ParamOrder == <<"rw", "cw">>
\* m.named_modules() without m itself
nested(m) == IF m = Root THEN Modules \ {Root} ELSE {}
\* m.parameters(): the parameters of m and of the instances nested in it
parameters(m) == {p \in Params : owner(p) = m \/ owner(p) \in nested(m)}

TrainingState == {"IDLE", "FORWARD", "PRE_BACKWARD", "POST_BACKWARD", "GATHER_FULL_PARAMS"}

\* A gradient tensor: its shape (the parameter's original shape or the shape
\* of the local shard) and how many per-pass gradients are summed in it.
NoGrad == [size |-> "none", n |-> 0]
zero_orig_size(s, p) == "orig"
\* p.zero_fp32_shard.shape: an unsharded parameter's shard is the whole parameter
zero_fp32_shard_shape(s, p) == IF s.param[p].zero_is_sharded THEN "shard" ELSE "orig"

\* The program state the handlers transform.
S == [fsdp |-> fsdp, param |-> param, reducer |-> reducer,
      callbacks |-> callbacks, err |-> err]

Raise(s) == [s EXCEPT !.err = TRUE]

\* _assert_state, lines 861-875: raise ValueError unless in one of `states`
\* (a variant that checks nothing)
MutAssertNothing(s, m, states) == s
assert_state(s, m, states) ==
    IF s.fsdp[m].training_state \in states THEN s ELSE Raise(s)

(***************************************************************************)
(* Zero3ParameterManager. Each operation rebinds p.data of the given       *)
(* parameters or (de)allocates their gathered full buffer.                 *)
(***************************************************************************)
rebuild_full_params(s, ps) ==
    [s EXCEPT !.param = [p \in Params |->
        IF p \in ps THEN [s.param[p] EXCEPT !.data = "full", !.full_built = TRUE]
        ELSE s.param[p]]]
use_full_params(s, ps) ==
    [s EXCEPT !.param = [p \in Params |->
        IF p \in ps THEN [s.param[p] EXCEPT !.data = "full"] ELSE s.param[p]]]
free_full_params(s, ps) ==
    [s EXCEPT !.param = [p \in Params |->
        IF p \in ps THEN [s.param[p] EXCEPT !.full_built = FALSE] ELSE s.param[p]]]
use_fp32_shards(s, ps) ==
    [s EXCEPT !.param = [p \in Params |->
        IF p \in ps THEN [s.param[p] EXCEPT !.data = "fp32_shard"] ELSE s.param[p]]]

(***************************************************************************)
(* Lazy initialisation.                                                    *)
(***************************************************************************)
\* _set_is_root, lines 249-285
set_is_root(s, m) ==
    IF s.fsdp[m].is_root # "None" THEN s
    ELSE LET s1 == [s EXCEPT !.fsdp[m].is_root = "True"]
             s2 == assert_state(s1, m, {"IDLE"})
         IN  IF s2.err THEN s2
             ELSE IF \E c \in nested(m) : s2.fsdp[c].is_root = "True" THEN Raise(s2)
             ELSE [s2 EXCEPT !.fsdp = [x \in Modules |->
                      IF x \in nested(m) /\ s2.fsdp[x].is_root = "None"
                      THEN [s2.fsdp[x] EXCEPT !.is_root = "False"]
                      ELSE s2.fsdp[x]]]

\* _lazy_init, lines 220-247
lazy_init(s, m) ==
    LET s1 == IF s.fsdp[m].is_root = "None" THEN set_is_root(s, m) ELSE s
    IN  IF s1.err THEN s1
        ELSE IF s1.fsdp[m].is_root = "True" /\ s1.fsdp[m].disable_reshard_on_root
        THEN [s1 EXCEPT !.fsdp[m].reshard_after_forward = FALSE]
        ELSE s1

(***************************************************************************)
(* Hook registration.                                                      *)
(***************************************************************************)
\* (a variant that registers a hook on every call)
MutRegisterEveryForward(s, m, grad_enabled) ==
    IF ~grad_enabled THEN s
    ELSE [s EXCEPT !.param = [p \in Params |->
            IF p \in params(m) /\ s.param[p].requires_grad
            THEN [s.param[p] EXCEPT !.zero_shard_bwd_hook = TRUE,
                                    !.live_hooks = @ + 1]
            ELSE s.param[p]]]

\* _register_post_backward_hooks, lines 486-533
register_post_backward_hooks(s, m, grad_enabled) ==
    IF ~grad_enabled THEN s
    ELSE [s EXCEPT !.param = [p \in Params |->
            IF p \in params(m) /\ s.param[p].requires_grad
               /\ ~s.param[p].zero_shard_bwd_hook
            THEN [s.param[p] EXCEPT !.zero_shard_bwd_hook = TRUE,
                                    !.live_hooks = @ + 1]
            ELSE s.param[p]]]

\* _register_pre_backward_hooks, lines 391-405: the part that changes the
\* instance (the hooks themselves are attached to the output tensors)
register_pre_backward_hooks(s, m, grad_enabled) ==
    IF ~grad_enabled THEN s
    ELSE IF s.fsdp[m].is_root = "True"
    THEN [s EXCEPT !.fsdp[m].post_backward_callback_queued = FALSE]
    ELSE s

\* _register_final_backward_hook, lines 673-683
register_final_backward_hook(s, m) ==
    IF s.fsdp[m].is_root # "True" THEN Raise(s)
    ELSE IF s.fsdp[m].post_backward_callback_queued THEN s
    ELSE LET s1 == assert_state(s, m, {"IDLE"})
         IN  IF s1.err THEN s1
             ELSE [s1 EXCEPT !.fsdp[m].post_backward_callback_queued = TRUE,
                             !.callbacks = @ + 1]

(***************************************************************************)
(* forward(), lines 140-198, in two steps around self.module(...), during  *)
(* which nested instances run their own forward().                         *)
(***************************************************************************)
\* lines 141-163
forward_enter(s, m, grad_enabled) ==
    LET s1 == lazy_init(s, m)
    IN  IF s1.err THEN s1
        ELSE LET s2 == [s1 EXCEPT !.fsdp[m].training_state = "FORWARD"]
                 s3 == rebuild_full_params(s2, params(m))
             IN  register_post_backward_hooks(s3, m, grad_enabled)

\* lines 167-198
forward_exit(s, m, grad_enabled) ==
    LET s1 == IF s.fsdp[m].reshard_after_forward
              THEN free_full_params(s, params(m)) ELSE s
        s2 == use_fp32_shards(s1, params(m))
        s3 == register_pre_backward_hooks(s2, m, grad_enabled)
    IN  [s3 EXCEPT !.fsdp[m].training_state = "IDLE"]

(***************************************************************************)
(* The backward pass.                                                      *)
(***************************************************************************)
\* _prep_grads_for_backward, lines 369-389, for one parameter
prep_grad(s, p) ==
    LET g == s.param[p].grad
    IN  IF g = NoGrad THEN s
        ELSE IF g.size = zero_orig_size(s, p) THEN s
        ELSE IF g.size = zero_fp32_shard_shape(s, p)
        THEN [s EXCEPT !.param[p].zero_saved_grad_shard = g,
                       !.param[p].grad = NoGrad]
        ELSE Raise(s)

RECURSIVE prep_grads_seq(_, _, _)
prep_grads_seq(s, m, ps) ==
    IF ps = <<>> \/ s.err THEN s
    ELSE prep_grads_seq(IF Head(ps) \in params(m) THEN prep_grad(s, Head(ps)) ELSE s,
                        m, Tail(ps))

\* _prep_grads_for_backward, lines 369-389; prep_runs counts the runs of it
\* on the instance since the last final backward callback
prep_grads_for_backward(s, m) ==
    prep_grads_seq([s EXCEPT !.fsdp[m].prep_runs = @ + 1], m, ParamOrder)

\* _pre_backward_hook, lines 407-448
\* (a variant that enters POST_BACKWARD at once)
MutPreHookSkipsToPost(s, m) ==
    LET s1 == IF s.fsdp[m].is_root = "True" THEN register_final_backward_hook(s, m) ELSE s
        s2 == IF s1.fsdp[m].reshard_after_forward
              THEN rebuild_full_params(s1, params(m))
              ELSE use_full_params(s1, params(m))
        s3 == IF s2.fsdp[m].pre_backward_hook_has_run THEN s2
              ELSE LET a == [s2 EXCEPT !.fsdp[m].pre_backward_hook_has_run = TRUE]
                       b == assert_state(a, m, {"IDLE", "PRE_BACKWARD"})
                   IN  IF b.err THEN b ELSE prep_grads_for_backward(b, m)
        s4 == IF s3.fsdp[m].training_state = "IDLE"
              THEN [s3 EXCEPT !.fsdp[m].training_state = "POST_BACKWARD"]
              ELSE s3
    IN  IF s1.err THEN s1
        ELSE IF s3.err THEN s3
        ELSE assert_state(s4, m, {"PRE_BACKWARD", "POST_BACKWARD"})
\* (a variant that prepares the gradients on every firing)
MutPrepEveryFiring(s, m) ==
    LET s1 == IF s.fsdp[m].is_root = "True" THEN register_final_backward_hook(s, m) ELSE s
        s2 == IF s1.fsdp[m].reshard_after_forward
              THEN rebuild_full_params(s1, params(m))
              ELSE use_full_params(s1, params(m))
        s3 == LET a == [s2 EXCEPT !.fsdp[m].pre_backward_hook_has_run = TRUE]
                  b == IF s2.fsdp[m].pre_backward_hook_has_run THEN a
                       ELSE assert_state(a, m, {"IDLE", "PRE_BACKWARD"})
              IN  IF b.err THEN b ELSE prep_grads_for_backward(b, m)
        s4 == IF s3.fsdp[m].training_state = "IDLE"
              THEN [s3 EXCEPT !.fsdp[m].training_state = "PRE_BACKWARD"]
              ELSE s3
    IN  IF s1.err THEN s1
        ELSE IF s3.err THEN s3
        ELSE assert_state(s4, m, {"PRE_BACKWARD", "POST_BACKWARD"})
pre_backward_hook(s, m) ==
    LET s1 == IF s.fsdp[m].is_root = "True" THEN register_final_backward_hook(s, m) ELSE s
        s2 == IF s1.fsdp[m].reshard_after_forward
              THEN rebuild_full_params(s1, params(m))
              ELSE use_full_params(s1, params(m))
        s3 == IF s2.fsdp[m].pre_backward_hook_has_run THEN s2
              ELSE LET a == [s2 EXCEPT !.fsdp[m].pre_backward_hook_has_run = TRUE]
                       b == assert_state(a, m, {"IDLE", "PRE_BACKWARD"})
                   IN  IF b.err THEN b ELSE prep_grads_for_backward(b, m)
        s4 == IF s3.fsdp[m].training_state = "IDLE"
              THEN [s3 EXCEPT !.fsdp[m].training_state = "PRE_BACKWARD"]
              ELSE s3
    IN  IF s1.err THEN s1
        ELSE IF s3.err THEN s3
        ELSE assert_state(s4, m, {"PRE_BACKWARD", "POST_BACKWARD"})

\* The gradient accumulator of p adds this pass's full-size gradient to p.grad
\* (lines 538-539: "param.grad contains the full gradient for the local
\* batch"); a p.grad of another shape cannot be accumulated into.
accumulate_grad(s, p) ==
    LET g == s.param[p].grad
    IN  IF g = NoGrad THEN [s EXCEPT !.param[p].grad = [size |-> zero_orig_size(s, p), n |-> 1]]
        ELSE IF g.size = zero_orig_size(s, p) THEN [s EXCEPT !.param[p].grad.n = @ + 1]
        ELSE Raise(s)

\* The output of the reduce-scatter of an unsharded gradient g of p: this
\* rank's chunk (chunk_and_pad and the collective, lines 621-624)
reduced_grad(s, p, g) == [size |-> zero_fp32_shard_shape(s, p), n |-> g.n]

\* _reduce_scatter_callback, lines 639-664
reduce_scatter_callback(s, p, reduced) ==
    LET s1 == assert_state(s, owner(p), {"POST_BACKWARD"})
    IN  IF s1.err THEN s1
        ELSE IF ~s1.param[p].zero_is_sharded THEN s1
        ELSE IF s1.param[p].zero_saved_grad_shard = NoGrad
        THEN [s1 EXCEPT !.param[p].zero_saved_grad_shard = reduced]
        ELSE IF s1.param[p].zero_saved_grad_shard.size # reduced.size THEN Raise(s1)
        ELSE [s1 EXCEPT !.param[p].zero_saved_grad_shard.n = @ + reduced.n]

\* ReduceScatterBucketer.flush: reduce every pending bucket and run the
\* callbacks of its entries, in the order they were enqueued
RECURSIVE flush(_)
flush(s) ==
    IF s.err \/ s.reducer = <<>> THEN s
    ELSE LET e == Head(s.reducer)
             s1 == [s EXCEPT !.reducer = Tail(@)]
         IN  flush(reduce_scatter_callback(s1, e.p, reduced_grad(s1, e.p, e.g)))

\* ReduceScatterBucketer.reduce_scatter_async: a tensor larger than the bucket
\* is reduced at once ("now"); one that fits is put in the bucket ("defer"),
\* after the bucket was flushed when it had no room left ("spill")
BucketModes == {"now", "defer", "spill"}
reduce_scatter_async(s, p, g, mode) ==
    IF mode = "now" THEN reduce_scatter_callback(s, p, reduced_grad(s, p, g))
    ELSE LET s1 == IF mode = "spill" THEN flush(s) ELSE s
         IN  IF s1.err THEN s1
             ELSE [s1 EXCEPT !.reducer = Append(@, [p |-> p, g |-> g])]

\* (a variant that reduces the gradient whatever the flag)
MutPostHookAlwaysSyncs(s, p, mode) ==
    LET m  == owner(p)
        s1 == assert_state(s, m, {"PRE_BACKWARD", "POST_BACKWARD"})
        s2 == [s1 EXCEPT !.fsdp[m].training_state = "POST_BACKWARD"]
        s3 == IF s2.fsdp[m].require_backward_grad_sync \/ s2.fsdp[m].reshard_after_forward
              THEN free_full_params(s2, {p}) ELSE s2
        s4 == use_fp32_shards(s3, {p})
        g  == s4.param[p].grad
    IN  IF s1.err THEN s1
        ELSE IF s2.param[p].grad = NoGrad THEN s2
        ELSE IF s4.param[p].zero_is_sharded
        THEN reduce_scatter_async([s4 EXCEPT !.param[p].grad = NoGrad], p, g, mode)
        ELSE reduce_scatter_callback(s4, p, g)

\* _post_backward_hook, lines 535-637
post_backward_hook(s, p, mode) ==
    LET m  == owner(p)
        s1 == assert_state(s, m, {"PRE_BACKWARD", "POST_BACKWARD"})
        s2 == [s1 EXCEPT !.fsdp[m].training_state = "POST_BACKWARD"]
        s3 == IF s2.fsdp[m].require_backward_grad_sync \/ s2.fsdp[m].reshard_after_forward
              THEN free_full_params(s2, {p}) ELSE s2
        s4 == use_fp32_shards(s3, {p})
        g  == s4.param[p].grad
    IN  IF s1.err THEN s1
        ELSE IF s2.param[p].grad = NoGrad THEN s2
        ELSE IF ~s4.fsdp[m].require_backward_grad_sync THEN s4
        ELSE IF s4.param[p].zero_is_sharded
        THEN reduce_scatter_async([s4 EXCEPT !.param[p].grad = NoGrad], p, g, mode)
        ELSE reduce_scatter_callback(s4, p, g)

\* _finalize_parameters, lines 716-747, for one parameter; `sync` is the
\* root's _require_backward_grad_sync
finalize_parameter(s, p, sync) ==
    IF ~s.param[p].requires_grad THEN s
    ELSE LET s1 == IF s.param[p].zero_shard_bwd_hook
                   THEN [s EXCEPT !.param[p].zero_shard_bwd_hook = FALSE,
                                  !.param[p].live_hooks = @ - 1]
                   ELSE s
         IN  IF ~sync THEN s1
             ELSE IF s1.param[p].zero_saved_grad_shard # NoGrad
             THEN [s1 EXCEPT !.param[p].grad = s1.param[p].zero_saved_grad_shard,
                             !.param[p].zero_saved_grad_shard = NoGrad]
             ELSE s1

RECURSIVE finalize_seq(_, _, _, _)
finalize_seq(s, m, ps, sync) ==
    IF ps = <<>> THEN s
    ELSE finalize_seq(IF Head(ps) \in params(m) THEN finalize_parameter(s, Head(ps), sync) ELSE s,
                      m, Tail(ps), sync)

\* _finalize_parameters, lines 716-747
finalize_parameters(s, m, sync) == finalize_seq(s, m, ParamOrder, sync)

\* _final_backward_hook, lines 750-782: one iteration of the loop over modules
final_module(s, root, m) ==
    LET s1 == finalize_parameters(s, m, s.fsdp[root].require_backward_grad_sync)
        s2 == [s1 EXCEPT !.fsdp[m].pre_backward_hook_has_run = FALSE,
                         !.fsdp[m].prep_runs = 0]
        s3 == IF \E p \in parameters(m) : s2.param[p].requires_grad
              THEN IF \E p \in params(m) : s2.param[p].requires_grad
                   THEN assert_state(s2, m, {"POST_BACKWARD"})
                   ELSE assert_state(s2, m, {"PRE_BACKWARD"})
              ELSE assert_state(s2, m, {"PRE_BACKWARD", "IDLE"})
        s4 == [s3 EXCEPT !.fsdp[m].training_state = "IDLE"]
    IN  IF s3.err THEN s3
        ELSE IF s4.fsdp[m].is_root = "True"
        THEN [s4 EXCEPT !.fsdp[root].post_backward_callback_queued = FALSE]
        ELSE s4

RECURSIVE final_modules(_, _, _)
final_modules(s, root, ms) ==
    IF ms = <<>> \/ s.err THEN s
    ELSE final_modules(final_module(s, root, Head(ms)), root, Tail(ms))

\* the modules under `root` in the order of root.modules()
modules_of(root) == SelectSeq(ModuleOrder, LAMBDA x : x = root \/ x \in nested(root))

\* (a variant that rebinds the gradients without flushing the bucketer)
MutFinalNoFlush(s, root) ==
    LET s0 == IF s.fsdp[root].is_root # "True" THEN Raise(s) ELSE s
        s1 == IF \E p \in params(root) : s0.param[p].requires_grad
              THEN assert_state(s0, root, {"POST_BACKWARD"})
              ELSE assert_state(s0, root, {"PRE_BACKWARD"})
    IN  IF s0.err THEN s0
        ELSE IF s1.err THEN s1
        ELSE final_modules(s1, root, modules_of(root))

\* _final_backward_hook, lines 685-782, run for the instance that queued it
final_backward_hook(s, root) ==
    LET s0 == IF s.fsdp[root].is_root # "True" THEN Raise(s) ELSE s
        s1 == IF \E p \in params(root) : s0.param[p].requires_grad
              THEN assert_state(s0, root, {"POST_BACKWARD"})
              ELSE assert_state(s0, root, {"PRE_BACKWARD"})
        s2 == IF s1.fsdp[root].require_backward_grad_sync THEN flush(s1) ELSE s1
    IN  IF s0.err THEN s0
        ELSE IF s1.err THEN s1
        ELSE IF s2.err THEN s2
        ELSE final_modules(s2, root, modules_of(root))

\* the engine runs the callbacks queued during the backward, in order
RECURSIVE run_callbacks(_, _)
run_callbacks(s, root) ==
    IF s.err \/ s.callbacks = 0 THEN s
    ELSE run_callbacks(final_backward_hook([s EXCEPT !.callbacks = @ - 1], root), root)

(***************************************************************************)
(* no_sync(), lines 828-859.                                               *)
(***************************************************************************)
\* lines 844-853: returns the state and, through old_flags_of, the saved flags
old_flags_of(s, m) ==
    [x \in {m} \cup nested(m) |-> s.fsdp[x].require_backward_grad_sync]

no_sync_enter(s, m) ==
    LET s1 == lazy_init(s, m)
        s2 == IF s1.fsdp[m].is_root # "True" THEN Raise(s1) ELSE s1
        s3 == assert_state(s2, m, {"IDLE"})
    IN  IF s1.err THEN s1
        ELSE IF s2.err THEN s2
        ELSE IF s3.err THEN s3
        ELSE [s3 EXCEPT !.fsdp = [x \in Modules |->
                 IF x \in {m} \cup nested(m)
                 THEN [s3.fsdp[x] EXCEPT !.require_backward_grad_sync = FALSE]
                 ELSE s3.fsdp[x]]]

\* lines 856-859: the finally block
RECURSIVE restore_flags(_, _, _)
restore_flags(s, old_flags, ms) ==
    IF ms = <<>> THEN s
    ELSE IF Head(ms) \notin DOMAIN old_flags THEN restore_flags(s, old_flags, Tail(ms))
    ELSE IF s.fsdp[Head(ms)].require_backward_grad_sync # FALSE THEN Raise(s)
    ELSE restore_flags([s EXCEPT !.fsdp[Head(ms)].require_backward_grad_sync = old_flags[Head(ms)]],
                       old_flags, Tail(ms))

\* (a variant that restores the flags only when the body returned normally)
MutNoSyncExitNoFinally(s, old_flags) ==
    IF s.err THEN s ELSE restore_flags(s, old_flags, ModuleOrder)
no_sync_exit(s, old_flags) == restore_flags(s, old_flags, ModuleOrder)

(***************************************************************************)
(* Specification Spec: one rank's hierarchy under every interleaving of    *)
(* forward calls, autograd hooks, no_sync scopes and zero_grad.            *)
(***************************************************************************)
InitModule(reshard, disable) ==
    [training_state |-> "IDLE", pre_backward_hook_has_run |-> FALSE, prep_runs |-> 0,
     require_backward_grad_sync |-> TRUE, is_root |-> "None",
     reshard_after_forward |-> reshard, disable_reshard_on_root |-> disable,
     post_backward_callback_queued |-> FALSE]

InitParam(requires_grad, sharded) ==
    [requires_grad |-> requires_grad, zero_is_sharded |-> sharded,
     data |-> "fp32_shard", full_built |-> FALSE,
     grad |-> NoGrad, zero_saved_grad_shard |-> NoGrad,
     zero_shard_bwd_hook |-> FALSE, live_hooks |-> 0]

Init ==
    /\ fsdp = [m \in Modules |-> InitModule(TRUE, TRUE)]
    /\ \E rg \in [Params -> BOOLEAN], sharded \in BOOLEAN :
          param = [p \in Params |-> InitParam(rg[p], sharded)]
    /\ reducer = <<>>
    /\ callbacks = 0
    /\ err = FALSE
    /\ call_stack = <<>>
    /\ backward = FALSE
    /\ grad_ready = [m \in Modules |-> FALSE]
    /\ out_hooks = [m \in Modules |-> 0]
    /\ scopes = <<>>
    /\ note = "-"
    /\ ParkGrad /\ ParkST /\ ParkNH /\ ParkMore

\* The handler's result becomes the program state; an exception unwinds the
\* forward calls in progress and aborts the backward.
Becomes(s) ==
    /\ fsdp' = s.fsdp
    /\ param' = s.param
    /\ reducer' = s.reducer
    /\ callbacks' = s.callbacks
    /\ err' = s.err

Unwound(s, stack, bwd, ready, hooks) ==
    /\ call_stack' = IF s.err THEN <<>> ELSE stack
    /\ backward' = IF s.err THEN FALSE ELSE bwd
    /\ grad_ready' = ready
    /\ out_hooks' = hooks

\* gradient contributions held for p: in p.grad, in the saved shard, in the bucketer
RECURSIVE pending_n(_, _)
pending_n(q, p) ==
    IF q = <<>> THEN 0
    ELSE (IF Head(q).p = p THEN Head(q).g.n ELSE 0) + pending_n(Tail(q), p)
held_n(p) == param[p].grad.n + param[p].zero_saved_grad_shard.n + pending_n(reducer, p)
held_total == held_n("rw") + held_n("cw")

\* forward() is called on the root by the user, on a nested instance from the
\* forward of the instance wrapping it, and on either one from inside a
\* backward (activation checkpointing re-runs the forward).
ForwardEnter(m, grad_enabled) ==
    /\ ~err
    /\ \/ call_stack = <<>> /\ (m = Root \/ backward)
       \/ /\ call_stack # <<>>
          /\ Len(call_stack) < Cardinality(Modules)
          /\ m \in nested(call_stack[Len(call_stack)].m)
          /\ grad_enabled = call_stack[Len(call_stack)].grad_enabled
    /\ fsdp[Root].is_root # "None" \/ m = Root
    /\ grad_enabled \/ ~backward
    /\ LET s == forward_enter(S, m, grad_enabled)
       IN  /\ Becomes(s)
           /\ Unwound(s, Append(call_stack, [m |-> m, grad_enabled |-> grad_enabled]),
                      backward, grad_ready, out_hooks)
           /\ note' = IF s.err THEN "raised in forward" ELSE "-"
    /\ UNCHANGED <<scopes, gvars, stvars, nhvars, morevars>>

\* self.module(...) returns; k outputs that require grad get a pre-backward hook
ForwardExit(k) ==
    /\ ~err
    /\ call_stack # <<>>
    /\ LET top == call_stack[Len(call_stack)]
           s == forward_exit(S, top.m, top.grad_enabled)
       IN  /\ k + out_hooks[top.m] <= MaxOutHooks
           /\ top.grad_enabled \/ k = 0
           /\ Becomes(s)
           /\ Unwound(s, SubSeq(call_stack, 1, Len(call_stack) - 1), backward, grad_ready,
                      [out_hooks EXCEPT ![top.m] = @ + k])
           /\ note' = "-"
    /\ UNCHANGED <<scopes, gvars, stvars, nhvars, morevars>>

\* loss.backward(): the engine starts an outer-most backward
BackwardStart ==
    /\ ~err /\ ~backward /\ call_stack = <<>>
    /\ \E m \in Modules : out_hooks[m] > 0
    /\ backward' = TRUE
    /\ grad_ready' = [m \in Modules |-> FALSE]
    /\ note' = "-"
    /\ UNCHANGED <<fsdp, param, reducer, callbacks, err, call_stack, out_hooks, scopes>>
    /\ UNCHANGED <<gvars, stvars, nhvars, morevars>>

\* the gradient of an output of m is ready: its hook fires
PreBackwardHook(m) ==
    /\ ~err /\ backward /\ call_stack = <<>>
    /\ out_hooks[m] > 0
    /\ LET s == pre_backward_hook(S, m)
       IN  /\ s.callbacks <= MaxCallbacks
           /\ Becomes(s)
           /\ Unwound(s, call_stack, backward, [grad_ready EXCEPT ![m] = TRUE],
                      [out_hooks EXCEPT ![m] = @ - 1])
           /\ note' = IF s.err THEN "raised in pre_backward_hook" ELSE "-"
    /\ UNCHANGED <<scopes, gvars, stvars, nhvars, morevars>>

\* the gradient accumulator of p has run: its hooks fire
PostBackwardHook(p, mode) ==
    /\ ~err /\ backward /\ call_stack = <<>>
    /\ grad_ready[owner(p)]
    /\ param[p].requires_grad
    /\ param[p].live_hooks > 0
    /\ held_total < MaxAccum
    /\ mode = "now" \/ (param[p].zero_is_sharded /\ fsdp[owner(p)].require_backward_grad_sync)
    /\ mode = "spill" => reducer # <<>>
    /\ LET s0 == accumulate_grad(S, p)
           s == IF s0.err THEN s0 ELSE post_backward_hook(s0, p, mode)
       IN  /\ Becomes(s)
           /\ Unwound(s, call_stack, backward, grad_ready, out_hooks)
           /\ note' = IF s.err THEN "raised in post_backward_hook" ELSE "-"
    /\ UNCHANGED <<scopes, gvars, stvars, nhvars, morevars>>

\* all backward work is done: the engine runs the queued callbacks, and the
\* graph with the hooks on its tensors is released
BackwardEnd ==
    /\ ~err /\ backward /\ call_stack = <<>>
    /\ LET s == run_callbacks(S, Root)
       IN  /\ Becomes(s)
           /\ Unwound(s, call_stack, FALSE, [m \in Modules |-> FALSE],
                      [m \in Modules |-> 0])
           /\ note' = IF s.err THEN "raised in final_backward_hook"
                      ELSE IF callbacks = 0 THEN "-"
                      ELSE IF reducer # <<>> /\ fsdp[Root].require_backward_grad_sync
                      THEN "final flushed" ELSE "final"
    /\ UNCHANGED <<scopes, gvars, stvars, nhvars, morevars>>

\* with root.no_sync(): entered
NoSyncEnter(m) ==
    /\ ~err /\ ~backward /\ call_stack = <<>>
    /\ scopes = <<>>
    /\ fsdp[Root].is_root # "None" \/ m = Root
    /\ LET s == no_sync_enter(S, m)
       IN  /\ Becomes(s)
           /\ scopes' = IF s.err THEN scopes ELSE Append(scopes, old_flags_of(S, m))
           /\ note' = IF s.err THEN "raised in no_sync" ELSE "-"
    /\ UNCHANGED <<call_stack, backward, grad_ready, out_hooks, gvars, stvars, nhvars, morevars>>

\* the scope is left: by the body returning, or by an exception passing through
NoSyncExit ==
    /\ scopes # <<>>
    /\ err \/ (~backward /\ call_stack = <<>>)
    /\ LET s == no_sync_exit(S, scopes[Len(scopes)])
       IN  Becomes(s)
    /\ scopes' = SubSeq(scopes, 1, Len(scopes) - 1)
    /\ note' = IF err THEN "no_sync left by an exception" ELSE "-"
    /\ UNCHANGED <<call_stack, backward, grad_ready, out_hooks, gvars, stvars, nhvars, morevars>>

\* optimizer.zero_grad(set_to_none=True)
ZeroGrad ==
    /\ ~err /\ ~backward /\ call_stack = <<>>
    /\ \E p \in Params : param[p].grad # NoGrad
    /\ param' = [p \in Params |-> [param[p] EXCEPT !.grad = NoGrad]]
    /\ note' = "-"
    /\ UNCHANGED <<fsdp, reducer, callbacks, err, call_stack, backward, grad_ready,
                   out_hooks, scopes, gvars, stvars, nhvars, morevars>>

Next ==
    \/ \E m \in Modules, grad_enabled \in BOOLEAN : ForwardEnter(m, grad_enabled)
    \/ \E k \in 0..MaxOutHooks : ForwardExit(k)
    \/ BackwardStart
    \/ \E m \in Modules : PreBackwardHook(m)
    \/ \E p \in Params, mode \in BucketModes : PostBackwardHook(p, mode)
    \/ BackwardEnd
    \/ \E m \in Modules : NoSyncEnter(m)
    \/ NoSyncExit
    \/ ZeroGrad

Spec == Init /\ [][Next]_vars

(***************************************************************************)
(* Properties of Spec.                                                     *)
(***************************************************************************)
\* m has a parameter of its own that requires grad
trainable(m) == \E p \in params(m) : param[p].requires_grad

\* this step is the engine running the one queued final backward callback
\* to completion
FinalCompletes ==
    /\ backward /\ ~backward'
    /\ callbacks > 0 /\ callbacks' = 0
    /\ ~err'

\* the training_state edges the specification lists
ClaimedEdges ==
    {<<"IDLE", "FORWARD">>, <<"FORWARD", "IDLE">>, <<"IDLE", "PRE_BACKWARD">>,
     <<"PRE_BACKWARD", "POST_BACKWARD">>, <<"POST_BACKWARD", "IDLE">>}

\* C1 as stated (refuted): every change of training_state follows one of the
\* edges IDLE->FORWARD, FORWARD->IDLE, IDLE->PRE_BACKWARD,
\* PRE_BACKWARD->POST_BACKWARD, POST_BACKWARD->IDLE.
C1_OnlyClaimedEdges ==
    [][\A m \in Modules :
          fsdp[m].training_state # fsdp'[m].training_state
          => <<fsdp[m].training_state, fsdp'[m].training_state>> \in ClaimedEdges]_zvars

\* C1, amended: every change of training_state follows one of the five listed
\* edges, or PRE_BACKWARD->FORWARD or POST_BACKWARD->FORWARD (forward() called
\* during a backward sets FORWARD whatever the state), or PRE_BACKWARD->IDLE
\* (the final backward callback, for an instance none of whose own parameters
\* requires grad); no other transition occurs.
C1_Edges ==
    [][\A m \in Modules :
          fsdp[m].training_state # fsdp'[m].training_state
          => \/ <<fsdp[m].training_state, fsdp'[m].training_state>> \in ClaimedEdges
             \/ /\ fsdp[m].training_state \in {"PRE_BACKWARD", "POST_BACKWARD"}
                /\ fsdp'[m].training_state = "FORWARD"
                /\ Len(call_stack') = Len(call_stack) + 1
             \/ /\ fsdp[m].training_state = "PRE_BACKWARD"
                /\ fsdp'[m].training_state = "IDLE"
                /\ ~trainable(m)
                /\ backward /\ callbacks' < callbacks]_zvars

\* a forward() is in progress inside a backward in which the instance's
\* pre-backward hook has run, while another instance is in POST_BACKWARD
C1_Witness ==
    /\ backward
    /\ \E m \in Modules :
          /\ fsdp[m].training_state = "FORWARD"
          /\ fsdp[m].pre_backward_hook_has_run
          /\ \E m2 \in Modules \ {m} : fsdp[m2].training_state = "POST_BACKWARD"

\* C2 as stated (refuted): a forward() on an instance in PRE_BACKWARD or
\* POST_BACKWARD, and a pre-backward hook of a further backward reaching an
\* instance already in POST_BACKWARD, raise an error.
C2_InterleavingRaises ==
    [][\A m \in Modules :
          \/ /\ fsdp[m].training_state \in {"PRE_BACKWARD", "POST_BACKWARD"}
             /\ fsdp'[m].training_state = "FORWARD"
          \/ /\ fsdp[m].training_state = "POST_BACKWARD"
             /\ out_hooks'[m] = out_hooks[m] - 1
          => err']_zvars

\* C2, amended: forward() checks no training state once the root is
\* initialised, so a forward() during a backward raises nothing itself; the
\* interleaving is caught only by a later state check: the final backward
\* callback raises whenever an instance with a parameter of its own that
\* requires grad is not in POST_BACKWARD, as after a forward() that was not
\* followed by the instance's pre- and post-backward hooks.
C2_CaughtAtFinal ==
    [][/\ (\E m \in Modules : fsdp'[m].training_state = "FORWARD"
                               /\ fsdp[m].training_state # "FORWARD") => ~err'
       /\ (/\ backward /\ ~backward' /\ callbacks' < callbacks
           /\ \E m \in Modules : trainable(m) /\ fsdp[m].training_state # "POST_BACKWARD")
          => err']_zvars

\* the final backward callback raised on a root left IDLE by a forward() that
\* ran after its pre-backward hook
C2_Witness ==
    /\ note = "raised in final_backward_hook"
    /\ fsdp[Root].training_state = "IDLE"
    /\ fsdp[Root].pre_backward_hook_has_run
    /\ trainable(Root)

\* C3: when the final backward callback completes with gradient sync enabled,
\* the bucketer is empty, and every parameter that requires grad and has a
\* saved shard or a reduction pending has .grad equal to the saved shard with
\* every pending reduction accumulated into it, of the shard's shape, and its
\* zero_saved_grad_shard removed.
C3_FlushedBeforeRebind ==
    [][FinalCompletes /\ fsdp[Root].require_backward_grad_sync
       => /\ reducer' = <<>>
          /\ \A p \in Params :
                /\ param[p].requires_grad
                /\ param[p].zero_saved_grad_shard # NoGrad \/ pending_n(reducer, p) > 0
                => /\ param'[p].grad =
                         [size |-> zero_fp32_shard_shape(S, p),
                          n |-> param[p].zero_saved_grad_shard.n + pending_n(reducer, p)]
                   /\ param'[p].zero_saved_grad_shard = NoGrad]_zvars

\* a final backward callback has completed that found reductions pending in
\* the bucketer and left a gradient accumulated from two of them
C3_Witness ==
    /\ note = "final flushed"
    /\ \E p \in Params : param[p].grad = [size |-> "shard", n |-> 2]

\* C4 as stated (refuted): during one outer-most backward at most one final
\* backward callback is queued on the engine.
C4_QueuedOnce == callbacks <= 1

\* C5 as stated (refuted): outside forward and backward every managed
\* parameter's data is bound to its fp32 shard.
C5_DataIsFp32Shard ==
    (~err /\ ~backward /\ call_stack = <<>>)
    => \A p \in Params : param[p].data = "fp32_shard"

\* C6: once the no_sync() scope is left, by return or by an exception, every
\* instance has _require_backward_grad_sync at the value it had before the
\* scope was entered (True: scopes do not nest here).
C6_FlagsRestored ==
    scopes = <<>> => \A m \in Modules : fsdp[m].require_backward_grad_sync

\* the scope was left by an exception raised in its body
C6_Witness ==
    /\ note = "no_sync left by an exception"
    /\ scopes = <<>>
    /\ err

\* the engine runs a queued final backward callback in this step
FinalRuns ==
    /\ backward /\ ~backward' /\ callbacks > 0
    /\ note' \in {"final", "final flushed", "raised in final_backward_hook"}

\* forward() of m is entered with grad enabled in this step, and does not raise
ForwardEntered(m) ==
    call_stack' = Append(call_stack, [m |-> m, grad_enabled |-> TRUE])

\* the pre-backward hook of m fires in this step
Firing(m) == out_hooks'[m] = out_hooks[m] - 1 /\ grad_ready'[m]

\* C19: a parameter with requires_grad has at most one post-backward hook
\* registered (zero_shard_bwd_hook) between two final backward callbacks,
\* however many times forward() runs on its module; only the final callback
\* removes a hook, a final callback that completes removes the hook and the
\* attribute of every such parameter, and the next forward (with grad enabled)
\* registers exactly one new hook.
C19_OneHookPerParameter ==
    [][\A p \in Params :
          /\ param'[p].live_hooks <= 1
          /\ param'[p].zero_shard_bwd_hook <=> param'[p].live_hooks = 1
          /\ param'[p].live_hooks > 0 => param'[p].requires_grad
          /\ param'[p].live_hooks < param[p].live_hooks => FinalRuns
          /\ FinalCompletes =>
                param'[p].live_hooks = 0 /\ ~param'[p].zero_shard_bwd_hook
          /\ (param[p].requires_grad /\ ForwardEntered(owner(p))) =>
                param'[p].live_hooks = 1]_vars

\* forward() runs again on the root, inside the backward of an earlier
\* forward, and the root's parameter still has its one hook
C19_Witness ==
    /\ backward
    /\ call_stack # <<>>
    /\ call_stack[1] = [m |-> Root, grad_enabled |-> TRUE]
    /\ param["rw"].requires_grad
    /\ param["rw"].zero_shard_bwd_hook
    /\ param["rw"].live_hooks = 1

\* C20: between two final backward callbacks _prep_grads_for_backward runs at
\* most once per instance however many times the pre-backward hook of the
\* instance fires, while every firing rebuilds (or switches to) the full
\* parameters; _pre_backward_hook_has_run is set by the first firing and
\* only a final backward callback resets it.
C20_PrepOncePerIteration ==
    [][\A m \in Modules :
          /\ fsdp'[m].prep_runs <= 1
          /\ fsdp'[m].prep_runs > fsdp[m].prep_runs =>
                Firing(m) /\ ~fsdp[m].pre_backward_hook_has_run
          /\ (Firing(m) /\ fsdp[m].pre_backward_hook_has_run) =>
                /\ fsdp'[m].prep_runs = fsdp[m].prep_runs
                /\ \A p \in params(m) :
                      /\ param'[p].grad = param[p].grad
                      /\ param'[p].zero_saved_grad_shard = param[p].zero_saved_grad_shard
          /\ (Firing(m) /\ ~err') =>
                /\ fsdp'[m].pre_backward_hook_has_run
                /\ \A p \in params(m) :
                      /\ param'[p].data = "full"
                      /\ fsdp[m].reshard_after_forward => param'[p].full_built
          /\ (fsdp[m].pre_backward_hook_has_run /\ ~fsdp'[m].pre_backward_hook_has_run) =>
                FinalRuns
          /\ FinalCompletes =>
                ~fsdp'[m].pre_backward_hook_has_run /\ fsdp'[m].prep_runs = 0]_vars

\* the pre-backward hook of the root has fired and prepared the gradients,
\* and another hook of the root is about to fire in the same backward
C20_Witness ==
    /\ backward /\ ~err /\ call_stack = <<>>
    /\ fsdp[Root].pre_backward_hook_has_run
    /\ fsdp[Root].prep_runs = 1
    /\ out_hooks[Root] > 0


\* the gradient accumulator of p has run in this step and its post-backward
\* hook has returned: one more contribution is held for p
PostFired(p) ==
    /\ backward
    /\ param'[p].grad.n + param'[p].zero_saved_grad_shard.n + pending_n(reducer', p)
          = held_n(p) + 1

\* C21: while _require_backward_grad_sync is False on the instance of a
\* parameter, the post-backward hook of the parameter enqueues no
\* reduce-scatter and runs no reduce-scatter callback (the bucketer and the
\* saved shard stay as they were, the pass's gradient is added to the
\* unsharded .grad), and the final backward callback leaves .grad,
\* zero_saved_grad_shard and the bucketer as they were.
C21_NoSyncKeepsGradLocal ==
    [][\A p \in Params :
          ~fsdp[owner(p)].require_backward_grad_sync =>
             /\ PostFired(p) =>
                   /\ reducer' = reducer
                   /\ param'[p].zero_saved_grad_shard = param[p].zero_saved_grad_shard
                   /\ param'[p].grad = [size |-> zero_orig_size(S, p),
                                        n |-> param[p].grad.n + 1]
             /\ FinalRuns =>
                   /\ reducer' = reducer
                   /\ param'[p].zero_saved_grad_shard = param[p].zero_saved_grad_shard
                   /\ param'[p].grad = param[p].grad]_vars

\* a final backward callback has run inside no_sync() and a sharded parameter
\* holds the unsharded gradient accumulated over two passes
C21_Witness ==
    /\ note = "final"
    /\ scopes # <<>>
    /\ \A m \in Modules : ~fsdp[m].require_backward_grad_sync
    /\ \E p \in Params :
          /\ param[p].zero_is_sharded
          /\ param[p].grad = [size |-> "orig", n |-> 2]

\* the final callback of the root passes its own checks (lines 690-697) and
\* flushes the bucketer (lines 699-704)
FinalFlushes ==
    /\ FinalRuns
    /\ fsdp[Root].is_root = "True"
    /\ ~assert_state(S, Root, IF \E p \in params(Root) : param[p].requires_grad
                              THEN {"POST_BACKWARD"} ELSE {"PRE_BACKWARD"}).err
    /\ fsdp[Root].require_backward_grad_sync

\* C27 as stated (refuted): every invocation of _reduce_scatter_callback,
\* synchronous or deferred until a bucket fills or until the final flush,
\* finds the instance that owns the parameter in POST_BACKWARD, so that its
\* state check never fails.  Stated for the reductions the final flush runs:
\* when the flush starts, the owner of every reduction that waits in the
\* bucketer is in POST_BACKWARD.
C27_CallbackFindsPostBackward ==
    [][FinalFlushes =>
          \A i \in 1..Len(reducer) :
              fsdp[owner(reducer[i].p)].training_state = "POST_BACKWARD"]_vars

\* the final flush raised on the state check of the callback of a reduction
\* whose owner had run its forward again since the reduction was enqueued
C27_CallbackRaised ==
    /\ note = "raised in final_backward_hook" /\ err
    /\ fsdp[Root].training_state = "POST_BACKWARD"
    /\ fsdp["child"].training_state = "IDLE"
    /\ param["cw"].grad = NoGrad /\ param["cw"].zero_saved_grad_shard = NoGrad
    /\ param["cw"].zero_shard_bwd_hook


(***************************************************************************)
(* StatefulTensor (sharded_param/tensorful_state.py) and ShardedTensor     *)
(* (sharded_param/sharded_tensor.py).                                      *)
(***************************************************************************)
MaxTensors == 3     \* torch tensors (storages, and contents) the caller passes in

TensorState == {"FREE", "HOLD", "HOLD_AFTER_FWD", "HOLD_AFTER_BWD"}

\* A torch.Tensor: its storage (data_ptr) and its contents. None is NullPayload.
Tensors == [ptr : 1..MaxTensors, value : 1..MaxTensors]
NullPayload == [ptr |-> 0, value |-> 0]

\* An operation's outcome: the object after it and the exception it raised
Outcome(o, exc) == [obj |-> o, exc |-> exc]

\* StatefulTensor.__init__, tensorful_state.py lines 21-26
StatefulTensor_init(tensor, state) ==
    [class |-> "StatefulTensor", state |-> state,
     payload |-> IF state # "FREE" THEN tensor ELSE NullPayload,
     is_sharded |-> FALSE]

\* StatefulTensor.set_null, lines 37-39
set_null(o) == Outcome([o EXCEPT !.state = "FREE", !.payload = NullPayload], "none")

\* StatefulTensor.is_null, lines 41-45
is_null(o) ==
    IF o.state = "FREE" /\ o.payload # NullPayload
    THEN Outcome(o, "AssertionError")
    ELSE Outcome(o, "none")

\* StatefulTensor.trans_state, lines 47-50
trans_state(o, state) ==
    Outcome([o EXCEPT !.state = state,
                      !.payload = IF state = "FREE" THEN NullPayload ELSE @], "none")

\* StatefulTensor.copy_payload, lines 56-57: the contents are copied into the
\* payload's storage; None has no view()
copy_payload(o, tensor) ==
    IF o.payload = NullPayload THEN Outcome(o, "AttributeError")
    ELSE Outcome([o EXCEPT !.payload.value = tensor.value], "none")

\* StatefulTensor.reset_payload, lines 59-61
reset_payload(o, tensor) == Outcome([o EXCEPT !.payload = tensor], "none")

\* ShardedTensor.__init__, sharded_tensor.py lines 9-23
ShardedTensor_init(tensor) ==
    LET o == trans_state(StatefulTensor_init(tensor, "HOLD"), "HOLD").obj
    IN  [o EXCEPT !.class = "ShardedTensor", !.is_sharded = FALSE]

\* ShardedTensor.is_sharded setter, sharded_tensor.py lines 37-39
set_is_sharded(o, flag) == Outcome([o EXCEPT !.is_sharded = flag], "none")

(***************************************************************************)
(* Specification SpecST: one tensor object, constructed with any tensor    *)
(* and state, under every sequence of its operations.                      *)
(***************************************************************************)
InitST ==
    /\ \E tensor \in Tensors :
          \/ \E state \in TensorState : stensor = StatefulTensor_init(tensor, state)
          \/ stensor = ShardedTensor_init(tensor)
    /\ st_raised = "none"
    /\ ParkZero /\ ParkGrad /\ ParkNH /\ ParkMore

SetNull ==
    /\ stensor' = set_null(stensor).obj
    /\ st_raised' = set_null(stensor).exc
    /\ UNCHANGED <<zvars, gvars, nhvars, morevars>>

IsNull ==
    /\ stensor' = is_null(stensor).obj
    /\ st_raised' = is_null(stensor).exc
    /\ UNCHANGED <<zvars, gvars, nhvars, morevars>>

TransState(state) ==
    /\ stensor' = trans_state(stensor, state).obj
    /\ st_raised' = trans_state(stensor, state).exc
    /\ UNCHANGED <<zvars, gvars, nhvars, morevars>>

CopyPayload(tensor) ==
    /\ stensor' = copy_payload(stensor, tensor).obj
    /\ st_raised' = copy_payload(stensor, tensor).exc
    /\ UNCHANGED <<zvars, gvars, nhvars, morevars>>

ResetPayload(tensor) ==
    /\ stensor' = reset_payload(stensor, tensor).obj
    /\ st_raised' = reset_payload(stensor, tensor).exc
    /\ UNCHANGED <<zvars, gvars, nhvars, morevars>>

SetIsSharded(flag) ==
    /\ stensor.class = "ShardedTensor"
    /\ stensor' = set_is_sharded(stensor, flag).obj
    /\ st_raised' = set_is_sharded(stensor, flag).exc
    /\ UNCHANGED <<zvars, gvars, nhvars, morevars>>

NextST ==
    \/ SetNull
    \/ IsNull
    \/ \E state \in TensorState : TransState(state)
    \/ \E tensor \in Tensors : CopyPayload(tensor)
    \/ \E tensor \in Tensors : ResetPayload(tensor)
    \/ \E flag \in BOOLEAN : SetIsSharded(flag)

SpecST == InitST /\ [][NextST]_vars

\* C9 as stated (refuted): the payload is None if and only if the state is FREE.
C9_PayloadNoneIffFree ==
    (stensor.payload = NullPayload) <=> (stensor.state = "FREE")

(***************************************************************************)
(* NodeHandler.register_strategy                                           *)
(* (auto_parallel/tensor_shard/node_handler/node_handler.py).              *)
(* A strategy is its sharding_specs: the operands in the order of the      *)
(* dict, each with whether its data is a torch.Tensor and with the         *)
(* dim_partition_dict of its sharding spec, a sequence of items            *)
(* <<tensor dim, shard_axes>>. Costs are not part of this model.           *)
(***************************************************************************)
MaxStrategies == 2      \* strategies the generators yield in one call

ShardOptions == {"STANDARD", "SHARD", "SHARD_LAST_AXIS", "FULL_SHARD"}
MeshShapes == {<<2>>, <<2, 2>>}
TensorDims == {0, 1}

\* the lists of mesh axes one tensor dim can be sharded over
ShardAxes(shape) ==
    {a \in UNION {[1..k -> 0..(Len(shape) - 1)] : k \in 1..Len(shape)} :
        \A i, j \in DOMAIN a : i # j => a[i] # a[j]}

Range(f) == {f[i] : i \in DOMAIN f}

\* the dim_partition_dicts a ShardingSpec accepts for a tensor of two dims:
\* every mesh axis is used at most once
DimPartitionDicts(shape) ==
    {<<>>}
    \cup {<< <<d, a>> >> : d \in TensorDims, a \in ShardAxes(shape)}
    \cup {<< <<0, ab[1]>>, <<1, ab[2]>> >> :
            ab \in {x \in ShardAxes(shape) \X ShardAxes(shape) :
                       Range(x[1]) \cap Range(x[2]) = {}}}

\* the strategies a generator yields here: a tensor operand with any sharding
\* spec, and a second operand that is a tensor or is not one
SecondOperands(shape) ==
    {[is_tensor |-> FALSE, dim_partition_dict |-> << <<0, <<Len(shape) - 1>> >> >>],
     [is_tensor |-> TRUE, dim_partition_dict |-> <<>>],
     [is_tensor |-> TRUE, dim_partition_dict |-> << <<0, <<0>> >> >>],
     [is_tensor |-> TRUE, dim_partition_dict |-> << <<0, <<Len(shape) - 1>> >> >>]}

Strategies(shape) ==
    {<<[is_tensor |-> TRUE, dim_partition_dict |-> d], b>> :
        d \in DimPartitionDicts(shape), b \in SecondOperands(shape)}

\* lines 207-208: one dict item's axes appended to the list, unless in it
RECURSIVE append_shard_axes(_, _)
append_shard_axes(shard_axis_list, shard_axes) ==
    IF shard_axes = <<>> THEN shard_axis_list
    ELSE append_shard_axes(
            IF Head(shard_axes) \notin Range(shard_axis_list)
            THEN Append(shard_axis_list, Head(shard_axes)) ELSE shard_axis_list,
            Tail(shard_axes))

\* line 206: the items of one dim_partition_dict
RECURSIVE append_dict_axes(_, _)
append_dict_axes(shard_axis_list, items) ==
    IF items = <<>> THEN shard_axis_list
    ELSE append_dict_axes(append_shard_axes(shard_axis_list, Head(items)[2]), Tail(items))

\* lines 204-210: shard_axis_list of one strategy
RECURSIVE shard_axis_list_of(_, _)
shard_axis_list_of(shard_axis_list, operands) ==
    IF operands = <<>> THEN shard_axis_list
    ELSE shard_axis_list_of(
            IF Head(operands).is_tensor
            THEN append_dict_axes(shard_axis_list, Head(operands).dim_partition_dict)
            ELSE shard_axis_list,
            Tail(operands))

\* lines 212-221: whether the strategy is appended to remove_strategy_list
\* (a variant that lets FULL_SHARD keep a strategy sharded over one axis)
MutFullShardKeepsOneAxis(strategy, option, shape) ==
    LET shard_axis_list == shard_axis_list_of(<<>>, strategy)
        last_axis == Len(shape) - 1
        shard_level == Len(shard_axis_list)
        using_last_axis == last_axis \in Range(shard_axis_list)
                           \/ -1 \in Range(shard_axis_list)
    IN  \/ option = "SHARD" /\ shard_level = 0
        \/ option = "FULL_SHARD" /\ shard_level < 1
        \/ option = "SHARD_LAST_AXIS" /\ (shard_level # 1 \/ using_last_axis = FALSE)

in_remove_strategy_list(strategy, option, shape) ==
    LET shard_axis_list == shard_axis_list_of(<<>>, strategy)
        last_axis == Len(shape) - 1
        shard_level == Len(shard_axis_list)
        using_last_axis == last_axis \in Range(shard_axis_list)
                           \/ -1 \in Range(shard_axis_list)
    IN  \/ option = "SHARD" /\ shard_level = 0
        \/ option = "FULL_SHARD" /\ shard_level <= 1
        \/ option = "SHARD_LAST_AXIS" /\ (shard_level # 1 \/ using_last_axis = FALSE)

\* list.remove: the first element equal to x is taken out
RECURSIVE list_remove(_, _)
list_remove(list, x) ==
    IF list = <<>> THEN list
    ELSE IF Head(list) = x THEN Tail(list)
    ELSE <<Head(list)>> \o list_remove(Tail(list), x)

RECURSIVE remove_all(_, _)
\* (a variant that removes every strategy of the list once, however often
\* the list holds it)
MutRemoveOncePerStrategy(vector, remove_strategy_list) ==
    IF remove_strategy_list = <<>> THEN vector
    ELSE remove_all(list_remove(vector, Head(remove_strategy_list)),
                    SelectSeq(Tail(remove_strategy_list),
                              LAMBDA strategy : strategy # Head(remove_strategy_list)))

\* lines 223-224
remove_all(vector, remove_strategy_list) ==
    IF remove_strategy_list = <<>> THEN vector
    ELSE remove_all(list_remove(vector, Head(remove_strategy_list)), Tail(remove_strategy_list))

\* NodeHandler.post_process, lines 228-231
post_process(strategy) == strategy

\* register_strategy, lines 155-226: the vector it returns
register_strategy(vector, yielded, option, shape) ==
    LET post_processed_strategies == [i \in DOMAIN yielded |-> post_process(yielded[i])]
        extended == vector \o post_processed_strategies
        remove_strategy_list ==
            SelectSeq(extended, LAMBDA strategy : in_remove_strategy_list(strategy, option, shape))
    IN  remove_all(extended, remove_strategy_list)

(***************************************************************************)
(* Specification SpecNH: a handler constructed with an empty vector, any   *)
(* shard option and a 1-D or 2-D mesh; register_strategy is called once.   *)
(***************************************************************************)
InitNH ==
    /\ shard_option \in ShardOptions
    /\ mesh_shape \in MeshShapes
    /\ generated = <<>>
    /\ strategies_vector = <<>>
    /\ nh_returned = FALSE
    /\ ParkZero /\ ParkGrad /\ ParkST /\ ParkMore

\* register_strategy() is called; the generators yield up to MaxStrategies
\* strategies, and may yield the first of them once more at the end
RegisterStrategy ==
    /\ ~nh_returned
    /\ \E k \in 0..MaxStrategies : \E first \in [1..k -> Strategies(mesh_shape)] :
          \E again \in {0, 1} \cap 0..k :
             LET yielded == IF again = 0 THEN first ELSE Append(first, first[again])
             IN  /\ generated' = yielded
                 /\ strategies_vector' =
                       register_strategy(strategies_vector, yielded, shard_option, mesh_shape)
    /\ nh_returned' = TRUE
    /\ UNCHANGED <<shard_option, mesh_shape, zvars, gvars, stvars, morevars>>

NextNH == RegisterStrategy

SpecNH == InitNH /\ [][NextNH]_vars

\* the distinct mesh axes in the dim_partition_dicts of the tensor operands
sharded_axes(strategy) ==
    UNION {UNION {Range(strategy[i].dim_partition_dict[j][2]) :
                    j \in DOMAIN strategy[i].dim_partition_dict} :
           i \in {x \in DOMAIN strategy : strategy[x].is_tensor}}

Satisfies(strategy, option, shape) ==
    LET k == Cardinality(sharded_axes(strategy))
    IN  /\ option = "SHARD" => k >= 1
        /\ option = "FULL_SHARD" => k >= 2
        /\ option = "SHARD_LAST_AXIS" => sharded_axes(strategy) = {Len(shape) - 1}

\* C10: after register_strategy returns, every strategy left in the vector
\* satisfies the shard option: SHARD at least one distinct mesh axis across
\* the tensor operands, FULL_SHARD at least two, SHARD_LAST_AXIS exactly one,
\* the mesh's last axis index; STANDARD removes nothing.
C10_FilterCorrect ==
    nh_returned =>
        /\ \A i \in DOMAIN strategies_vector :
              Satisfies(strategies_vector[i], shard_option, mesh_shape)
        /\ shard_option = "STANDARD" => strategies_vector = generated

\* SHARD_LAST_AXIS on a 2-D mesh removed one of two strategies and kept one
\* whose two tensor operands are sharded over the last axis
C10_Witness ==
    /\ nh_returned
    /\ shard_option = "SHARD_LAST_AXIS" /\ Len(mesh_shape) = 2
    /\ Len(generated) = 2 /\ Len(strategies_vector) = 1
    /\ \A i \in DOMAIN strategies_vector[1] :
          /\ strategies_vector[1][i].is_tensor
          /\ strategies_vector[1][i].dim_partition_dict # <<>>

\* C28: the shard-option filter removes only the strategies that violate the
\* policy: every strategy that satisfies it stays in the vector as many times
\* as it was generated and in its original relative order, also when the
\* vector holds strategies that compare equal to a removed one.
C28_FilterKeepsTheRest ==
    nh_returned =>
        strategies_vector =
            SelectSeq(generated, LAMBDA strategy : Satisfies(strategy, shard_option, mesh_shape))

\* a violating strategy was generated twice, around one that satisfies the
\* policy; that one is what stays
C28_Witness ==
    /\ nh_returned
    /\ Len(generated) = 3 /\ generated[1] = generated[3] /\ generated[1] # generated[2]
    /\ ~Satisfies(generated[1], shard_option, mesh_shape)
    /\ strategies_vector = <<generated[2]>>

(***************************************************************************)
(* Gradient values (zero_stage3_develop.py). A tensor is its elements as   *)
(* exact fractions over one denominator, in lowest terms, so that equal    *)
(* tensors are equal values; None is NoTensor.                             *)
(***************************************************************************)
MaxPasses == 3      \* forward/backward passes in one run

Ranks == {0, 1}
world_size == Cardinality(Ranks)
Runs == {"A", "B"}

NoTensor == [num |-> <<>>, den |-> 0]

RECURSIVE gcd(_, _)
gcd(a, b) == IF b = 0 THEN a ELSE gcd(b, a % b)

abs(x) == IF x < 0 THEN -x ELSE x

RECURSIVE seq_gcd(_, _)
seq_gcd(nums, g) ==
    IF nums = <<>> THEN g ELSE seq_gcd(Tail(nums), gcd(g, abs(Head(nums))))

lowest_terms(x) ==
    LET g == seq_gcd(x.num, x.den)
    IN  [num |-> [i \in DOMAIN x.num |-> x.num[i] \div g], den |-> x.den \div g]

\* torch.tensor(values)
tensor(values) == [num |-> values, den |-> 1]

numel(x) == Len(x.num)

\* x.div_(k) for a factor k = kn / kd
div_(x, kn, kd) ==
    lowest_terms([num |-> [i \in DOMAIN x.num |-> x.num[i] * kd], den |-> x.den * kn])

\* x += y
add_(x, y) ==
    lowest_terms([num |-> [i \in DOMAIN x.num |-> x.num[i] * y.den + y.num[i] * x.den],
                  den |-> x.den * y.den])

\* get_gradient_predivide_factor(world_size): the least power of two whose
\* square reaches the world size, or that stops dividing it
RECURSIVE predivide_loop(_, _)
predivide_loop(w, factor) ==
    IF w % factor = 0 /\ w > factor * factor
    THEN predivide_loop(w, factor * 2) ELSE factor

get_gradient_predivide_factor(w) == predivide_loop(w, 1)

\* __init__, line 99
gradient_predivide_factor == get_gradient_predivide_factor(world_size)

\* chunk_and_pad(tensor, num_chunks): num_chunks chunks of equal length, the
\* last ones padded with zeros; chunk r is at index r + 1
chunk_numel(n, num_chunks) == (n + num_chunks - 1) \div num_chunks

chunk_and_pad(x, num_chunks) ==
    LET c == chunk_numel(numel(x), num_chunks)
    IN  [r \in 1..num_chunks |->
            lowest_terms([num |-> [i \in 1..c |->
                                     IF (r - 1) * c + i <= numel(x)
                                     THEN x.num[(r - 1) * c + i] ELSE 0],
                          den |-> x.den])]

\* the sum of the given tensors
RECURSIVE sum_tensors(_)
sum_tensors(xs) ==
    IF Len(xs) = 1 THEN xs[1] ELSE add_(xs[1], sum_tensors(Tail(xs)))

RankOrder == <<0, 1>>

\* the reduce-scatter collective: rank r receives the sum over the ranks of
\* their chunk r
reduce_scatter(chunks, r) ==
    sum_tensors([i \in DOMAIN RankOrder |-> chunks[RankOrder[i]][r + 1]])

\* One rank's view of the parameter
InitRankParam == [grad |-> NoTensor, zero_saved_grad_shard |-> NoTensor, raised |-> FALSE]

\* _prep_grads_for_backward, lines 369-389
\* (a variant that drops a gradient shard instead of setting it aside)
MutPrepDropsShard(pr, orig_numel) ==
    IF pr.grad = NoTensor THEN pr
    ELSE IF numel(pr.grad) = orig_numel THEN pr
    ELSE IF numel(pr.grad) = chunk_numel(orig_numel, world_size)
    THEN [pr EXCEPT !.grad = NoTensor]
    ELSE [pr EXCEPT !.raised = TRUE]

prep_grads_for_backward_v(pr, orig_numel) ==
    IF pr.grad = NoTensor THEN pr
    ELSE IF numel(pr.grad) = orig_numel THEN pr
    ELSE IF numel(pr.grad) = chunk_numel(orig_numel, world_size)
    THEN [pr EXCEPT !.zero_saved_grad_shard = pr.grad, !.grad = NoTensor]
    ELSE [pr EXCEPT !.raised = TRUE]

\* autograd accumulates the pass's full local gradient into p.grad
accumulate_grad_v(pr, g) ==
    IF pr.grad = NoTensor THEN [pr EXCEPT !.grad = g]
    ELSE IF numel(pr.grad) = numel(g) THEN [pr EXCEPT !.grad = add_(@, g)]
    ELSE [pr EXCEPT !.raised = TRUE]

\* _post_backward_hook, lines 584-624, for a sharded parameter: the rank's
\* state after the hook and the chunks it hands to the reducer (<<>>: none)
\* (a variant that leaves out the pre-divide)
MutPostHookNoPredivide(pr, flag) ==
    IF pr.grad = NoTensor \/ ~flag THEN [pr |-> pr, grad_chunks |-> <<>>]
    ELSE [pr |-> [pr EXCEPT !.grad = NoTensor],
          grad_chunks |-> chunk_and_pad(pr.grad, world_size)]

post_backward_hook_v(pr, flag) ==
    IF pr.grad = NoTensor \/ ~flag THEN [pr |-> pr, grad_chunks |-> <<>>]
    ELSE LET grad == IF gradient_predivide_factor > 1
                     THEN div_(pr.grad, gradient_predivide_factor, 1)
                     ELSE pr.grad
         IN  [pr |-> [pr EXCEPT !.grad = NoTensor],
              grad_chunks |-> chunk_and_pad(grad, world_size)]

\* _reduce_scatter_callback, lines 639-664; gradient_postdivide_factor is
\* world_size / gradient_predivide_factor (__init__, line 100)
reduce_scatter_callback_v(pr, received) ==
    LET reduced == IF world_size > gradient_predivide_factor
                   THEN div_(received, world_size, gradient_predivide_factor)
                   ELSE received
    IN  IF pr.zero_saved_grad_shard = NoTensor
        THEN [pr EXCEPT !.zero_saved_grad_shard = reduced]
        ELSE IF numel(pr.zero_saved_grad_shard) # numel(reduced)
        THEN [pr EXCEPT !.raised = TRUE]
        ELSE [pr EXCEPT !.zero_saved_grad_shard = add_(@, reduced)]

\* _finalize_parameters, lines 727-747
finalize_parameters_v(pr, flag) ==
    IF ~flag THEN pr
    ELSE IF pr.zero_saved_grad_shard # NoTensor
    THEN [pr EXCEPT !.grad = pr.zero_saved_grad_shard, !.zero_saved_grad_shard = NoTensor]
    ELSE pr

(***************************************************************************)
(* Specification SpecGrad: the ranks of one reduce-scatter group run the   *)
(* same passes in lock-step, twice: run A may enter no_sync() before its   *)
(* first pass and leaves it before its last, run B stays synced. Both are  *)
(* fed the same full local gradients.                                      *)
(***************************************************************************)
ParamNumels == {3, 4}
\* the full local gradients autograd can produce in a pass
LocalGrads(n) == {SubSeq(v, 1, n) : v \in {<<1, 2, 3, 4>>, <<5, 6, 7, 8>>}}

orig_numel == Len(total[0])

InitGrad ==
    /\ rank_param = [run \in Runs |-> [r \in Ranks |-> InitRankParam]]
    /\ grad_sync = [run \in Runs |-> TRUE]
    /\ phase = "idle"
    /\ passes = 0
    /\ \E n \in ParamNumels : total = [r \in Ranks |-> [i \in 1..n |-> 0]]
    /\ ParkZero /\ ParkST /\ ParkNH /\ ParkMore

\* with model.no_sync(): entered in run A
GradNoSyncEnter ==
    /\ phase = "idle" /\ passes = 0 /\ grad_sync["A"]
    /\ grad_sync' = [grad_sync EXCEPT !["A"] = FALSE]
    /\ UNCHANGED <<rank_param, phase, passes, total, zvars, stvars, nhvars, morevars>>

\* the scope is left in run A
GradNoSyncExit ==
    /\ phase = "idle" /\ passes >= 1 /\ ~grad_sync["A"]
    /\ grad_sync' = [grad_sync EXCEPT !["A"] = TRUE]
    /\ UNCHANGED <<rank_param, phase, passes, total, zvars, stvars, nhvars, morevars>>

\* the backward of a pass reaches the parameter: the pre-backward hook has
\* run and autograd has accumulated rank r's full local gradient g[r]
GradBackward ==
    /\ phase = "idle" /\ passes < MaxPasses
    /\ \E g \in [Ranks -> LocalGrads(orig_numel)] :
          /\ rank_param' = [run \in Runs |-> [r \in Ranks |->
                accumulate_grad_v(prep_grads_for_backward_v(rank_param[run][r], orig_numel),
                                  tensor(g[r]))]]
          /\ total' = [r \in Ranks |-> [i \in 1..orig_numel |-> total[r][i] + g[r][i]]]
    /\ phase' = "backward"
    /\ UNCHANGED <<grad_sync, passes, zvars, stvars, nhvars, morevars>>

\* the post-backward hook on every rank, the reduce-scatter, and its callback
GradPostBackward ==
    /\ phase = "backward"
    /\ rank_param' = [run \in Runs |->
          LET hooked == [r \in Ranks |-> post_backward_hook_v(rank_param[run][r], grad_sync[run])]
              chunks == [r \in Ranks |-> hooked[r].grad_chunks]
          IN  [r \in Ranks |->
                 IF chunks[r] = <<>> THEN hooked[r].pr
                 ELSE reduce_scatter_callback_v(hooked[r].pr, reduce_scatter(chunks, r))]]
    /\ phase' = "reduced"
    /\ UNCHANGED <<grad_sync, passes, total, zvars, stvars, nhvars, morevars>>

\* the final backward callback on every rank
GradFinal ==
    /\ phase = "reduced"
    /\ rank_param' = [run \in Runs |-> [r \in Ranks |->
          finalize_parameters_v(rank_param[run][r], grad_sync[run])]]
    /\ passes' = passes + 1
    /\ phase' = IF grad_sync["A"] THEN "done" ELSE "idle"
    /\ UNCHANGED <<grad_sync, total, zvars, stvars, nhvars, morevars>>

NextGrad ==
    \/ GradNoSyncEnter
    \/ GradNoSyncExit
    \/ GradBackward
    \/ GradPostBackward
    \/ GradFinal

SpecGrad == InitGrad /\ [][NextGrad]_vars

\* chunk r of the element-wise sum over the ranks of their summed full local
\* gradients
summed_chunk(r) ==
    reduce_scatter([x \in Ranks |-> chunk_and_pad(tensor(total[x]), world_size)], r)

MaxPrevStrategies == 2      \* strategies in a predecessor's strategies_vector

RCNodes == {"x", "w"}
RCLayouts == {0, 1}
ElementSizes == {2, 4}      \* torch.tensor([], dtype=dtype).element_size()

NoneSpec == [kind |-> "none"]
SpecOf(layout) == [kind |-> "spec", layout |-> layout]
TupleOf(items) == [kind |-> "tuple", items |-> items]
TensorData == [kind |-> "tensor"]
OtherData == [kind |-> "other"]

TrainCycleItem(fwd, bwd, tot) == [fwd |-> fwd, bwd |-> bwd, total |-> tot]

\* ShapeConsistencyManager.shape_consistency(prev, current): the cost of the
\* transform path, forward, backward and total
shape_consistency(prev, current) ==
    LET fwd == IF prev = current THEN 0 ELSE 2 * prev + current + 1
        bwd == IF prev = current THEN 0 ELSE 2 * current + prev + 1
    IN  [forward |-> fwd, backward |-> bwd, total |-> fwd + bwd]

RECURSIVE compute_resharding_cost(_, _, _, _)
\* (a variant that charges nothing for data that is no tensor instead of
\* raising)
MutOtherDataCostsZero(prev_sharding_spec, current_sharding_spec, data, size_per_elem_bytes) ==
    IF prev_sharding_spec.kind = "none"
    THEN [cost |-> TrainCycleItem(0, 0, 0), exc |-> "none"]
    ELSE IF prev_sharding_spec.kind = "spec"
    THEN IF data.kind = "tensor"
         THEN LET consistency_cost ==
                      shape_consistency(prev_sharding_spec.layout, current_sharding_spec.layout)
              IN  [cost |-> TrainCycleItem(consistency_cost.forward * size_per_elem_bytes,
                                           consistency_cost.backward * size_per_elem_bytes,
                                           consistency_cost.total * size_per_elem_bytes),
                   exc |-> "none"]
         ELSE [cost |-> TrainCycleItem(0, 0, 0), exc |-> "none"]
    ELSE IF prev_sharding_spec.items = <<>> \/ current_sharding_spec.items = <<>>
    THEN [cost |-> TrainCycleItem(0, 0, 0), exc |-> "none"]
    ELSE IF data.items = <<>>
    THEN [cost |-> TrainCycleItem(0, 0, 0), exc |-> "IndexError"]
    ELSE LET item == compute_resharding_cost(Head(prev_sharding_spec.items),
                                             Head(current_sharding_spec.items),
                                             Head(data.items), size_per_elem_bytes)
             rest == compute_resharding_cost(TupleOf(Tail(prev_sharding_spec.items)),
                                             TupleOf(Tail(current_sharding_spec.items)),
                                             TupleOf(Tail(data.items)), size_per_elem_bytes)
         IN  IF item.exc # "none" THEN item
             ELSE IF rest.exc # "none" THEN rest
             ELSE [cost |-> TrainCycleItem(item.cost.fwd + rest.cost.fwd,
                                           item.cost.bwd + rest.cost.bwd,
                                           item.cost.total + rest.cost.total),
                   exc |-> "none"]

\* (a variant that adds the forward cost of an item to the total)
MutTotalAddsForward(prev_sharding_spec, current_sharding_spec, data, size_per_elem_bytes) ==
    IF prev_sharding_spec.kind = "none"
    THEN [cost |-> TrainCycleItem(0, 0, 0), exc |-> "none"]
    ELSE IF prev_sharding_spec.kind = "spec"
    THEN IF data.kind = "tensor"
         THEN LET consistency_cost ==
                      shape_consistency(prev_sharding_spec.layout, current_sharding_spec.layout)
              IN  [cost |-> TrainCycleItem(consistency_cost.forward * size_per_elem_bytes,
                                           consistency_cost.backward * size_per_elem_bytes,
                                           consistency_cost.total * size_per_elem_bytes),
                   exc |-> "none"]
         ELSE [cost |-> TrainCycleItem(0, 0, 0), exc |-> "ValueError"]
    ELSE IF prev_sharding_spec.items = <<>> \/ current_sharding_spec.items = <<>>
    THEN [cost |-> TrainCycleItem(0, 0, 0), exc |-> "none"]
    ELSE IF data.items = <<>>
    THEN [cost |-> TrainCycleItem(0, 0, 0), exc |-> "IndexError"]
    ELSE LET item == compute_resharding_cost(Head(prev_sharding_spec.items),
                                             Head(current_sharding_spec.items),
                                             Head(data.items), size_per_elem_bytes)
             rest == compute_resharding_cost(TupleOf(Tail(prev_sharding_spec.items)),
                                             TupleOf(Tail(current_sharding_spec.items)),
                                             TupleOf(Tail(data.items)), size_per_elem_bytes)
         IN  IF item.exc # "none" THEN item
             ELSE IF rest.exc # "none" THEN rest
             ELSE [cost |-> TrainCycleItem(item.cost.fwd + rest.cost.fwd,
                                           item.cost.bwd + rest.cost.bwd,
                                           item.cost.fwd + rest.cost.total),
                   exc |-> "none"]

\* _compute_resharding_cost, lines 82-125: the cost, or the exception raised.
\* zip (lines 114-116) pairs the items of the two spec lists and stops at the
\* end of the shorter one; data[index] (line 118) fails past the end of data.
compute_resharding_cost(prev_sharding_spec, current_sharding_spec, data, size_per_elem_bytes) ==
    IF prev_sharding_spec.kind = "none"
    THEN [cost |-> TrainCycleItem(0, 0, 0), exc |-> "none"]
    ELSE IF prev_sharding_spec.kind = "spec"
    THEN IF data.kind = "tensor"
         THEN LET consistency_cost ==
                      shape_consistency(prev_sharding_spec.layout, current_sharding_spec.layout)
              IN  [cost |-> TrainCycleItem(consistency_cost.forward * size_per_elem_bytes,
                                           consistency_cost.backward * size_per_elem_bytes,
                                           consistency_cost.total * size_per_elem_bytes),
                   exc |-> "none"]
         ELSE [cost |-> TrainCycleItem(0, 0, 0), exc |-> "ValueError"]
    ELSE IF prev_sharding_spec.items = <<>> \/ current_sharding_spec.items = <<>>
    THEN [cost |-> TrainCycleItem(0, 0, 0), exc |-> "none"]
    ELSE IF data.items = <<>>
    THEN [cost |-> TrainCycleItem(0, 0, 0), exc |-> "IndexError"]
    ELSE LET item == compute_resharding_cost(Head(prev_sharding_spec.items),
                                             Head(current_sharding_spec.items),
                                             Head(data.items), size_per_elem_bytes)
             rest == compute_resharding_cost(TupleOf(Tail(prev_sharding_spec.items)),
                                             TupleOf(Tail(current_sharding_spec.items)),
                                             TupleOf(Tail(data.items)), size_per_elem_bytes)
         IN  IF item.exc # "none" THEN item
             ELSE IF rest.exc # "none" THEN rest
             ELSE [cost |-> TrainCycleItem(item.cost.fwd + rest.cost.fwd,
                                           item.cost.bwd + rest.cost.bwd,
                                           item.cost.total + rest.cost.total),
                   exc |-> "none"]

\* lines 130-132: one cost per sharding spec of the predecessor, in order
RECURSIVE costs_of(_, _, _, _)
\* (a variant that stores the costs last strategy first)
MutCostsPrepended(prev_sharding_specs, current_sharding_spec, data, size_per_elem_bytes) ==
    IF prev_sharding_specs = <<>> THEN [costs |-> <<>>, exc |-> "none"]
    ELSE LET c == compute_resharding_cost(Head(prev_sharding_specs), current_sharding_spec,
                                          data, size_per_elem_bytes)
             rest == costs_of(Tail(prev_sharding_specs), current_sharding_spec,
                              data, size_per_elem_bytes)
         IN  IF c.exc # "none" THEN [costs |-> <<>>, exc |-> c.exc]
             ELSE IF rest.exc # "none" THEN rest
             ELSE [costs |-> rest.costs \o <<c.cost>>, exc |-> "none"]
costs_of(prev_sharding_specs, current_sharding_spec, data, size_per_elem_bytes) ==
    IF prev_sharding_specs = <<>> THEN [costs |-> <<>>, exc |-> "none"]
    ELSE LET c == compute_resharding_cost(Head(prev_sharding_specs), current_sharding_spec,
                                          data, size_per_elem_bytes)
             rest == costs_of(Tail(prev_sharding_specs), current_sharding_spec,
                              data, size_per_elem_bytes)
         IN  IF c.exc # "none" THEN [costs |-> <<>>, exc |-> c.exc]
             ELSE IF rest.exc # "none" THEN rest
             ELSE [costs |-> <<c.cost>> \o rest.costs, exc |-> "none"]

\* the loop over self.predecessor_node, lines 57-132
RECURSIVE resharding_costs_loop(_, _, _, _)
resharding_costs_loop(nodes, predecessor_node, strategy, resharding_costs) ==
    IF predecessor_node = <<>> THEN [costs |-> resharding_costs, exc |-> "none"]
    ELSE LET node == Head(predecessor_node)
         IN  IF node \notin DOMAIN strategy.sharding_specs
             THEN resharding_costs_loop(nodes, Tail(predecessor_node), strategy, resharding_costs)
             ELSE IF ~nodes[node].strategies_vector.has
             THEN [costs |-> resharding_costs, exc |-> "AssertionError"]
             ELSE LET op == strategy.sharding_specs[node]
                      list == costs_of(nodes[node].strategies_vector.items, op.spec, op.data,
                                       strategy.size_per_elem_bytes)
                  IN  IF list.exc # "none" THEN [costs |-> resharding_costs, exc |-> list.exc]
                      ELSE resharding_costs_loop(
                               nodes, Tail(predecessor_node), strategy,
                               [n \in DOMAIN resharding_costs \cup {node} |->
                                   IF n = node THEN list.costs ELSE resharding_costs[n]])

\* update_resharding_cost, lines 49-134: strategy.resharding_costs is assigned
\* only when the loop has not raised
update_resharding_cost(handler, strategy) ==
    LET r == resharding_costs_loop(handler.nodes, handler.predecessor_node, strategy, <<>>)
    IN  IF r.exc # "none" THEN [strategy |-> strategy, exc |-> r.exc]
        ELSE [strategy |-> [strategy EXCEPT !.resharding_costs = r.costs, !.updated = TRUE],
              exc |-> "none"]

\* the inputs: what a predecessor of each kind puts in its strategies and
\* what the strategy holds for it
RCKinds == {"tensor", "other", "tuple"}
PrevSpecs(kind) ==
    IF kind = "tensor" THEN {SpecOf(l) : l \in RCLayouts}
    ELSE IF kind = "other" THEN {NoneSpec, SpecOf(0)}
    ELSE {TupleOf(<<SpecOf(0), NoneSpec>>), TupleOf(<<SpecOf(1), SpecOf(1)>>),
          TupleOf(<<SpecOf(1), SpecOf(0)>>), TupleOf(<<SpecOf(1)>>),
          TupleOf(<<SpecOf(1), SpecOf(0), SpecOf(1)>>)}
Operands(kind) ==
    IF kind = "tensor" THEN {[spec |-> SpecOf(l), data |-> TensorData] : l \in RCLayouts}
    ELSE IF kind = "other" THEN {[spec |-> NoneSpec, data |-> OtherData]}
    ELSE {[spec |-> TupleOf(<<SpecOf(l), SpecOf(0)>>),
           data |-> TupleOf(<<TensorData, TensorData>>)] : l \in RCLayouts}
Vectors(kind) ==
    {[has |-> FALSE, items |-> <<>>]} \cup
    {[has |-> TRUE, items |-> v] :
        v \in UNION {[1..k -> PrevSpecs(kind)] : k \in 0..MaxPrevStrategies}}
PredecessorLists == {<<>>, <<"x">>, <<"w">>, <<"x", "w">>, <<"w", "x">>}

InitRC ==
    /\ \E kind \in RCKinds, vx \in UNION {Vectors(k) : k \in RCKinds},
          vw \in Vectors("tensor"), predecessor_node \in PredecessorLists :
          /\ vx \in Vectors(kind)
          /\ rc_node = [predecessor_node |-> predecessor_node,
                        nodes |-> [n \in RCNodes |->
                                      [kind |-> IF n = "x" THEN kind ELSE "tensor",
                                       strategies_vector |-> IF n = "x" THEN vx ELSE vw]]]
          /\ \E counted \in SUBSET RCNodes, size \in ElementSizes,
                ox \in Operands(kind), ow \in Operands("tensor") :
                rc_strategy = [sharding_specs |-> [n \in counted |-> IF n = "x" THEN ox ELSE ow],
                               size_per_elem_bytes |-> size,
                               resharding_costs |-> <<>>, updated |-> FALSE]
    /\ rc_raised = "none"
    /\ ParkZero /\ ParkGrad /\ ParkST /\ ParkNH /\ ParkEmb /\ ParkDS /\ ParkLd /\ ParkSv /\ ParkSq /\ ParkAG

UpdateReshardingCost ==
    /\ ~rc_strategy.updated /\ rc_raised = "none"
    /\ LET r == update_resharding_cost(rc_node, rc_strategy)
       IN  /\ rc_strategy' = r.strategy
           /\ rc_raised' = r.exc
    /\ UNCHANGED <<rc_node, zvars, gvars, stvars, nhvars, embvars, dsvars, ldvars, svvars, sqvars, agvars>>

NextRC == UpdateReshardingCost

SpecRC == InitRC /\ [][NextRC]_vars

\* the cost the claim names for one sharding spec of the predecessor: zero for
\* None, the byte cost of the conversion for a ShardingSpec, the sums over the
\* items paired by position for a tuple
RECURSIVE conversion_cost(_, _, _)
conversion_cost(prev, cur, size) ==
    IF prev.kind = "none" THEN TrainCycleItem(0, 0, 0)
    ELSE IF prev.kind = "spec"
    THEN LET c == shape_consistency(prev.layout, cur.layout)
         IN  TrainCycleItem(c.forward * size, c.backward * size, c.total * size)
    ELSE IF prev.items = <<>> \/ cur.items = <<>> THEN TrainCycleItem(0, 0, 0)
    ELSE LET a == conversion_cost(Head(prev.items), Head(cur.items), size)
             b == conversion_cost(TupleOf(Tail(prev.items)), TupleOf(Tail(cur.items)), size)
         IN  TrainCycleItem(a.fwd + b.fwd, a.bwd + b.bwd, a.total + b.total)

predecessors == {rc_node.predecessor_node[i] : i \in 1..Len(rc_node.predecessor_node)}

\* node's list is parallel to its strategies_vector and holds the conversion costs
ParallelList(node) ==
    /\ node \in DOMAIN rc_strategy.resharding_costs
    /\ LET list == rc_strategy.resharding_costs[node]
           vector == rc_node.nodes[node].strategies_vector.items
       IN  /\ Len(list) = Len(vector)
           /\ \A i \in 1..Len(vector) :
                 list[i] = conversion_cost(vector[i], rc_strategy.sharding_specs[node].spec,
                                           rc_strategy.size_per_elem_bytes)

\* C11 as stated (refuted): after update_resharding_cost every predecessor of
\* the handled node has a list in strategy.resharding_costs, as long as the
\* predecessor's strategies_vector.
C11_EveryPredecessorHasList ==
    rc_strategy.updated =>
        \A node \in predecessors :
            /\ node \in DOMAIN rc_strategy.resharding_costs
            /\ Len(rc_strategy.resharding_costs[node]) =
                   Len(rc_node.nodes[node].strategies_vector.items)

\* C11, amended: after update_resharding_cost every predecessor that is an
\* operand of the strategy has a list in strategy.resharding_costs, as long as
\* the predecessor's strategies_vector, whose i-th entry is the cost of
\* converting the spec of the predecessor's i-th strategy into the spec the
\* strategy requires for the operand; a predecessor that is no operand of the
\* strategy has no list.
C11_CountedPredecessorHasList ==
    rc_strategy.updated =>
        /\ \A node \in predecessors \cap DOMAIN rc_strategy.sharding_specs : ParallelList(node)
        /\ DOMAIN rc_strategy.resharding_costs = predecessors \cap DOMAIN rc_strategy.sharding_specs

\* costs were stored for a tuple-valued predecessor with two strategies, while
\* the other predecessor is no operand of the strategy
C11_Witness ==
    /\ rc_strategy.updated
    /\ rc_node.predecessor_node = <<"w", "x">>
    /\ DOMAIN rc_strategy.sharding_specs = {"x"}
    /\ rc_node.nodes["x"].kind = "tuple"
    /\ Len(rc_strategy.resharding_costs["x"]) = 2
    /\ rc_strategy.resharding_costs["x"][1] # rc_strategy.resharding_costs["x"][2]

\* update_resharding_cost has run, to its end or to an exception
attempted == rc_strategy.updated \/ rc_raised # "none"

\* predecessor x is an operand of the strategy with a strategies_vector, and
\* nothing stops the loop at the other predecessor
ReachesOperand ==
    /\ attempted
    /\ "x" \in predecessors \cap DOMAIN rc_strategy.sharding_specs
    /\ rc_node.nodes["x"].strategies_vector.has
    /\ ("w" \in predecessors \cap DOMAIN rc_strategy.sharding_specs)
          => rc_node.nodes["w"].strategies_vector.has

vector_x == rc_node.nodes["x"].strategies_vector.items
operand_x == rc_strategy.sharding_specs["x"]

ZeroCosts == [i \in 1..Len(vector_x) |-> TrainCycleItem(0, 0, 0)]

\* C25 as stated (refuted): whenever the operand supplied by a predecessor
\* is not a tensor, the cost recorded for each of the predecessor's
\* strategies is TrainCycleItem(fwd=0, bwd=0, total=0) and no error is raised.
C25_NonTensorCostsZero ==
    (ReachesOperand /\ operand_x.data = OtherData) =>
        /\ rc_raised = "none"
        /\ rc_strategy.resharding_costs["x"] = ZeroCosts

\* C25, amended: for an operand that is not a tensor, when every strategy of
\* the predecessor holds None as the sharding spec of the operand, the cost
\* recorded for each of them is TrainCycleItem(fwd=0, bwd=0, total=0) and no
\* error is raised; when a strategy of the predecessor holds a ShardingSpec
\* for it, ValueError is raised and no cost is stored in the strategy.
C25_NoneSpecCostsZero ==
    (ReachesOperand /\ operand_x.data = OtherData) =>
        IF \E i \in 1..Len(vector_x) : vector_x[i].kind = "spec"
        THEN rc_raised = "ValueError" /\ ~rc_strategy.updated
                /\ rc_strategy.resharding_costs = <<>>
        ELSE /\ rc_raised = "none"
             /\ rc_strategy.resharding_costs["x"] = ZeroCosts

\* two strategies of the predecessor of a non-tensor operand, both without a
\* sharding spec for it, got the zero cost, next to a tensor operand
C25_Witness ==
    /\ rc_strategy.updated
    /\ rc_node.predecessor_node = <<"x", "w">>
    /\ DOMAIN rc_strategy.sharding_specs = {"x", "w"}
    /\ operand_x.data = OtherData
    /\ Len(vector_x) = 2
    /\ rc_strategy.resharding_costs["x"] = <<TrainCycleItem(0, 0, 0), TrainCycleItem(0, 0, 0)>>

\* the items zip pairs (lines 114-116), and the sum of the costs of the
\* first n pairs
paired(prev, cur) ==
    IF Len(prev.items) < Len(cur.items) THEN Len(prev.items) ELSE Len(cur.items)
RECURSIVE SumItems(_, _, _, _)
SumItems(prev, cur, n, size) ==
    IF n = 0 THEN TrainCycleItem(0, 0, 0)
    ELSE LET a == SumItems(prev, cur, n - 1, size)
             b == conversion_cost(prev.items[n], cur.items[n], size)
         IN  TrainCycleItem(a.fwd + b.fwd, a.bwd + b.bwd, a.total + b.total)

\* C26 as stated (refuted): for a tuple- or list-valued operand the cost is
\* the element-wise recursion over all items: fwd, bwd and total are each the
\* sum of that component of every item's cost, with no item of the
\* predecessor's or the current spec list left out.
C26_SumsEveryItem ==
    (ReachesOperand /\ operand_x.data.kind = "tuple") =>
        /\ rc_strategy.updated
        /\ \A i \in 1..Len(vector_x) :
              /\ Len(vector_x[i].items) = Len(operand_x.spec.items)
              /\ rc_strategy.resharding_costs["x"][i] =
                    SumItems(vector_x[i], operand_x.spec, Len(operand_x.spec.items),
                             rc_strategy.size_per_elem_bytes)

\* C26, amended: for a tuple- or list-valued operand the cost is the
\* element-wise recursion over the items of the predecessor's and the current
\* spec list paired by position: fwd, bwd and total are each the sum of that
\* component of the cost of every pair; the items of the longer list past the
\* length of the shorter one are left out.
C26_SumsPairedItems ==
    (ReachesOperand /\ operand_x.data.kind = "tuple") =>
        /\ rc_strategy.updated
        /\ \A i \in 1..Len(vector_x) :
              rc_strategy.resharding_costs["x"][i] =
                  SumItems(vector_x[i], operand_x.spec, paired(vector_x[i], operand_x.spec),
                           rc_strategy.size_per_elem_bytes)

\* the costs of a strategy whose two items both cost something and of a
\* strategy with three items, against a current spec list of two items
C26_Witness ==
    /\ rc_strategy.updated
    /\ "x" \in predecessors \cap DOMAIN rc_strategy.sharding_specs
    /\ operand_x.data.kind = "tuple"
    /\ operand_x.spec = TupleOf(<<SpecOf(0), SpecOf(0)>>)
    /\ vector_x = <<TupleOf(<<SpecOf(1), SpecOf(1)>>), TupleOf(<<SpecOf(1), SpecOf(0), SpecOf(1)>>)>>
    /\ rc_strategy.resharding_costs["x"][1].total = 2 * rc_strategy.resharding_costs["x"][2].total
    /\ rc_strategy.resharding_costs["x"][2].total > 0


(***************************************************************************)
(* SpecEmb: the embedding handler's post_process (embedding_handler.py)    *)
(* and the part of NodeHandler.register_strategy that calls it             *)
(* (node_handler.py, lines 159-194).  The generator yields a logical       *)
(* strategy over the flattened input (one batch dim) and the logical       *)
(* output (batch dim, embedding dim); post_process maps it onto the        *)
(* physical shapes.  ShardingSpec, update_partition_dim and                *)
(* ShardingStrategy.clone are outside the sources.                         *)
(***************************************************************************)
MaxRank == 3        \* dimensions of the physical input tensor

DimSizes == {2, 3, 4}
EmbeddingDims == {2, 3}
NoDict == <<>>      \* an empty dim_partition_dict (a function with no dim)

RECURSIVE prod(_)
prod(sizes) == IF sizes = <<>> THEN 1 ELSE Head(sizes) * prod(Tail(sizes))

\* the number of devices a dimension sharded over mesh_dims is split across
partition_count(mesh_dims, mesh) == prod([k \in 1..Len(mesh_dims) |-> mesh[mesh_dims[k] + 1]])

\* ShardingSpec.__init__'s sanity check: every sharded dim is a dim of the
\* shape and its size is divisible by the number of devices it is split across
sharding_spec_exc(dim_partition_dict, entire_shape, mesh) ==
    IF \E d \in DOMAIN dim_partition_dict :
          \/ d >= Len(entire_shape)
          \/ entire_shape[d + 1] % partition_count(dim_partition_dict[d], mesh) # 0
    THEN "ShardingNotDivisibleError"
    ELSE "none"

\* update_partition_dim(sharding_spec, dim_mapping, physical_shape, inplace=True):
\* move the mesh dims of each old dim to its new dim, keep the other dims, and
\* re-initialise the spec on the physical shape
update_partition_dim(dim_partition_dict, dim_mapping, physical_shape, mesh) ==
    IF \E old \in DOMAIN dim_mapping : old \notin DOMAIN dim_partition_dict
    THEN [dict |-> dim_partition_dict, exc |-> "KeyError"]
    ELSE LET moved == {dim_mapping[old] : old \in DOMAIN dim_mapping}
             kept == DOMAIN dim_partition_dict \ DOMAIN dim_mapping
             new == [d \in moved \cup kept |->
                        IF d \in moved
                        THEN dim_partition_dict[CHOOSE old \in DOMAIN dim_mapping :
                                                    dim_mapping[old] = d]
                        ELSE dim_partition_dict[d]]
         IN  IF kept \cap moved # {}
             THEN [dict |-> dim_partition_dict, exc |-> "KeyError"]
             ELSE [dict |-> new, exc |-> sharding_spec_exc(new, physical_shape, mesh)]

\* the physical shapes of the operands (get_operation_data_mapping, lines 121-151)
input_shape(strategy) == strategy.input_shape
output_shape(strategy) == strategy.input_shape \o <<strategy.embedding_dim>>
\* their logical shapes: view(-1) and view(-1, shape[-1])
input_logical_shape(strategy) == <<prod(strategy.input_shape)>>
output_logical_shape(strategy) == <<prod(strategy.input_shape), strategy.embedding_dim>>

\* (a variant that names the candidate after dim i but leaves the batch dim
\* on physical dim 0)
MutCandidateKeepsDimZero(strategy, i) ==
    LET input == update_partition_dim(strategy.input, (0 :> 0), input_shape(strategy),
                                      strategy.mesh)
        output == update_partition_dim(strategy.output, (0 :> 0), output_shape(strategy),
                                       strategy.mesh)
    IN  IF input.exc # "none" THEN [exc |-> input.exc]
        ELSE IF output.exc # "none" THEN [exc |-> output.exc]
        ELSE [exc |-> "none",
              strategy |-> [name |-> <<strategy.name, "_", i>>,
                            input |-> input.dict, output |-> output.dict]]

\* lines 54-75: the candidate for physical dim i, or the exception it raised
convert_candidate(strategy, i) ==
    LET last_logical_output_dims == Len(output_logical_shape(strategy)) - 1
        last_physical_output_dims == Len(output_shape(strategy)) - 1
        input == update_partition_dim(strategy.input, (0 :> i), input_shape(strategy),
                                      strategy.mesh)
        dim_mapping == IF last_logical_output_dims \in DOMAIN strategy.output
                       THEN (0 :> i) @@ (last_logical_output_dims :> last_physical_output_dims)
                       ELSE (0 :> i)
        output == update_partition_dim(strategy.output, dim_mapping, output_shape(strategy),
                                       strategy.mesh)
    IN  IF input.exc # "none" THEN [exc |-> input.exc]
        ELSE IF output.exc # "none" THEN [exc |-> output.exc]
        ELSE [exc |-> "none",
              strategy |-> [name |-> <<strategy.name, "_", i>>,
                            input |-> input.dict, output |-> output.dict]]

\* (a variant whose try has no except clause: the error of one candidate
\* leaves the function)
RECURSIVE enumerate_candidates(_, _, _)
MutNoExcept(strategy, i, num_input_dims) ==
    IF i = num_input_dims THEN [strategies |-> <<>>, exc |-> "none"]
    ELSE LET c == convert_candidate(strategy, i)
             rest == enumerate_candidates(strategy, i + 1, num_input_dims)
         IN  IF c.exc # "none" THEN [strategies |-> <<>>, exc |-> c.exc]
             ELSE IF rest.exc # "none" THEN rest
             ELSE [strategies |-> <<c.strategy>> \o rest.strategies, exc |-> "none"]

\* the loop of lines 53-80: a candidate that raises ShardingNotDivisibleError
\* is logged and skipped, any other exception leaves the function
enumerate_candidates(strategy, i, num_input_dims) ==
    IF i = num_input_dims THEN [strategies |-> <<>>, exc |-> "none"]
    ELSE LET c == convert_candidate(strategy, i)
             rest == enumerate_candidates(strategy, i + 1, num_input_dims)
         IN  IF c.exc = "ShardingNotDivisibleError" THEN rest
             ELSE IF c.exc # "none" THEN [strategies |-> <<>>, exc |-> c.exc]
             ELSE IF rest.exc # "none" THEN rest
             ELSE [strategies |-> <<c.strategy>> \o rest.strategies, exc |-> "none"]

\* lines 85-104: the batch dim is not sharded; nothing catches an exception here
convert_unsharded(strategy) ==
    LET last_logical_output_dims == Len(output_logical_shape(strategy)) - 1
        last_physical_output_dims == Len(output_shape(strategy)) - 1
        input == update_partition_dim(strategy.input, NoDict, input_shape(strategy),
                                      strategy.mesh)
        dim_mapping == IF last_logical_output_dims \in DOMAIN strategy.output
                       THEN (last_logical_output_dims :> last_physical_output_dims)
                       ELSE NoDict
        output == update_partition_dim(strategy.output, dim_mapping, output_shape(strategy),
                                       strategy.mesh)
    IN  IF input.exc # "none" THEN [strategies |-> <<>>, exc |-> input.exc]
        ELSE IF output.exc # "none" THEN [strategies |-> <<>>, exc |-> output.exc]
        ELSE [strategies |-> << [name |-> <<strategy.name>>,
                                 input |-> input.dict, output |-> output.dict] >>,
              exc |-> "none"]

\* _convert_logical_sharding_to_physical_sharding_spec_for_embedding, lines 18-106
convert_logical_sharding_to_physical_sharding_spec_for_embedding(strategy) ==
    IF DOMAIN strategy.input # {}
    THEN enumerate_candidates(strategy, 0, Len(input_shape(strategy)))
    ELSE convert_unsharded(strategy)

\* EmbeddingModuleHandler.post_process and EmbeddingFunctionHandler.post_process
emb_post_process(strategy) ==
    convert_logical_sharding_to_physical_sharding_spec_for_embedding(strategy)

\* register_strategy, lines 159-194, for a generator that yields `strategy`:
\* a list returned by post_process extends the vector; nothing is caught
emb_register_strategy(vector, strategy) ==
    LET r == emb_post_process(strategy)
    IN  IF r.exc # "none" THEN [vector |-> vector, exc |-> r.exc]
        ELSE [vector |-> vector \o r.strategies, exc |-> "none"]

\* The logical strategies EmbeddingStrategyGenerator yields: the batch dim of
\* the input and of the output sharded alike, over no, one or both mesh axes,
\* the embedding dim of the output over a remaining axis or not at all; a
\* ShardingSpec exists only if it passed the sanity check on its logical shape.
InputShapes == UNION {[1..n -> DimSizes] : n \in 1..MaxRank}
BatchAxes(mesh) == {<<>>} \cup {<<a>> : a \in 0..(Len(mesh) - 1)} \cup
                   (IF Len(mesh) = 2 THEN {<<0, 1>>} ELSE {})
LogicalStrategies ==
    {st \in [name : {"S"}, mesh : MeshShapes, input_shape : InputShapes,
             embedding_dim : EmbeddingDims,
             input : {NoDict} \cup {(0 :> <<0>>), (0 :> <<1>>), (0 :> <<0, 1>>)},
             output : {NoDict} \cup
                      {(0 :> b) : b \in {<<0>>, <<1>>, <<0, 1>>}} \cup
                      {(1 :> e) : e \in {<<0>>, <<1>>}} \cup
                      {(0 :> b) @@ (1 :> e) : b \in {<<0>>, <<1>>}, e \in {<<0>>, <<1>>}}] :
        /\ \A d \in DOMAIN st.input : st.input[d] \in BatchAxes(st.mesh)
        /\ DOMAIN st.input = DOMAIN st.output \cap {0}
        /\ \A d \in DOMAIN st.input : st.output[d] = st.input[d]
        /\ 1 \in DOMAIN st.output =>
              /\ st.output[1][1] < Len(st.mesh)
              /\ 0 \in DOMAIN st.output => st.output[0] # st.output[1]
        /\ sharding_spec_exc(st.input, input_logical_shape(st), st.mesh) = "none"
        /\ sharding_spec_exc(st.output, output_logical_shape(st), st.mesh) = "none"}

InitEmb ==
    /\ emb_strategy \in LogicalStrategies
    /\ emb_result = [returned |-> FALSE, strategies |-> <<>>]
    /\ emb_vector = [returned |-> FALSE, strategies |-> <<>>]
    /\ emb_raised = "none"
    /\ ParkZero /\ ParkGrad /\ ParkST /\ ParkNH /\ ParkRC /\ ParkDS /\ ParkLd /\ ParkSv /\ ParkSq /\ ParkAG

EmbPostProcess ==
    /\ ~emb_result.returned /\ emb_raised = "none"
    /\ LET r == emb_post_process(emb_strategy)
       IN  /\ emb_result' = IF r.exc = "none"
                          THEN [returned |-> TRUE, strategies |-> r.strategies]
                          ELSE emb_result
           /\ emb_raised' = r.exc
    /\ UNCHANGED <<emb_strategy, emb_vector, zvars, gvars, stvars, nhvars, rcvars, dsvars, ldvars,
                   svvars, sqvars, agvars>>

EmbRegisterStrategy ==
    /\ ~emb_vector.returned /\ emb_raised = "none"
    /\ LET r == emb_register_strategy(<<>>, emb_strategy)
       IN  /\ emb_vector' = IF r.exc = "none"
                          THEN [returned |-> TRUE, strategies |-> r.vector]
                          ELSE emb_vector
           /\ emb_raised' = r.exc
    /\ UNCHANGED <<emb_strategy, emb_result, zvars, gvars, stvars, nhvars, rcvars, dsvars, ldvars,
                   svvars, sqvars, agvars>>

NextEmb == EmbPostProcess \/ EmbRegisterStrategy

SpecEmb == InitEmb /\ [][NextEmb]_vars

\* the physical dims the logical batch dim can be mapped to: the size of the
\* dim is divisible by the partition count of the batch dim, and the embedding
\* dim by the partition count of its own axes when it is sharded
divisible_dims ==
    {i \in 0..(Len(emb_strategy.input_shape) - 1) :
        /\ emb_strategy.input_shape[i + 1]
               % partition_count(emb_strategy.input[0], emb_strategy.mesh) = 0
        /\ 1 \in DOMAIN emb_strategy.output =>
              emb_strategy.embedding_dim
                  % partition_count(emb_strategy.output[1], emb_strategy.mesh) = 0}

\* C12: for a logical strategy that shards the batch dim and an input of rank
\* n, post_process returns one strategy per physical dim i in 0..n-1 whose
\* conversion raises no ShardingNotDivisibleError, in increasing i, named
\* '<logical name>_<i>', with logical dim 0 remapped to physical dim i: n
\* strategies when every dim is divisible, the others' candidates missing.
C12_FanOut ==
    (emb_result.returned /\ DOMAIN emb_strategy.input # {}) =>
        /\ Len(emb_result.strategies) = Cardinality(divisible_dims)
        /\ \A k \in 1..Len(emb_result.strategies) :
              LET i == emb_result.strategies[k].name[3]
                  n == Len(emb_strategy.input_shape)
              IN  /\ i \in divisible_dims
                  /\ emb_result.strategies[k].name = <<emb_strategy.name, "_", i>>
                  /\ \A j \in 1..(k - 1) : emb_result.strategies[j].name[3] < i
                  /\ emb_result.strategies[k].input = (i :> emb_strategy.input[0])
                  /\ emb_result.strategies[k].output =
                         IF 1 \in DOMAIN emb_strategy.output
                         THEN (i :> emb_strategy.output[0]) @@ (n :> emb_strategy.output[1])
                         ELSE (i :> emb_strategy.output[0])
        /\ (\A d \in 1..Len(emb_strategy.input_shape) :
               emb_strategy.input_shape[d]
                   % partition_count(emb_strategy.input[0], emb_strategy.mesh) = 0)
           => Len(emb_result.strategies) = Len(emb_strategy.input_shape)

\* a rank-3 input yielded 3 strategies
C12_Witness ==
    /\ emb_result.returned
    /\ DOMAIN emb_strategy.input # {}
    /\ Len(emb_strategy.input_shape) = 3
    /\ Len(emb_result.strategies) = 3

\* C13: no ShardingNotDivisibleError (nor any other exception) leaves
\* post_process or register_strategy; when the batch dim is sharded the
\* candidates that raise it are discarded and the others produced, and when it
\* is not sharded the single conversion raises nothing.
C13_NeverPropagates ==
    /\ emb_raised = "none"
    /\ emb_vector.returned =>
          IF DOMAIN emb_strategy.input # {}
          THEN {emb_vector.strategies[k].name[3] : k \in 1..Len(emb_vector.strategies)} = divisible_dims
          ELSE Len(emb_vector.strategies) = 1

\* register_strategy returned with the candidate of dim 1 discarded and the
\* candidates of dims 0 and 2 produced
C13_Witness ==
    /\ emb_vector.returned
    /\ DOMAIN emb_strategy.input # {}
    /\ Len(emb_strategy.input_shape) = 3
    /\ emb_strategy.input_shape[2] % partition_count(emb_strategy.input[0], emb_strategy.mesh) # 0
    /\ Len(emb_vector.strategies) = 2
    /\ emb_vector.strategies[1].name = <<"S", "_", 0>> /\ emb_vector.strategies[2].name = <<"S", "_", 2>>


(***************************************************************************)
(* SpecDS: DistSpecManager (dist_spec_mgr.py).  A logical 2-D tensor is    *)
(* held by the ranks of a process group under a dist spec: replicated, or  *)
(* sharded along dims into num_partitions chunks each.  handle_trans_spec  *)
(* is called on every rank with the same pair of specs.  A tensor is the   *)
(* sequence of its rows.  _DistSpec is outside the sources; replicate()    *)
(* leaves process_group None (colo_parameter.py, line 16).                 *)
(***************************************************************************)
MaxSize == 4        \* size of a dimension of the logical tensor

DSWorld == 4        \* process_group.size()
DSRanks == 0..(DSWorld - 1)
DSSizes == 2..MaxSize
NoGroup == "None"
ProcessGroups == {"g1", "g2"}

replicate(process_group) ==
    [placement |-> "r", process_group |-> process_group, dims |-> <<>>, num_partitions |-> <<>>]
shard(process_group, dims, num_partitions) ==
    [placement |-> "s", process_group |-> process_group, dims |-> dims,
     num_partitions |-> num_partitions]
DistSpecs ==
    {replicate(g) : g \in ProcessGroups \cup {NoGroup}} \cup
    {shard(g, d, <<DSWorld>>) : g \in ProcessGroups, d \in {<<0>>, <<1>>}} \cup
    {shard(g, d, <<2, 2>>) : g \in ProcessGroups, d \in {<<0, 1>>, <<1, 0>>}}

\* tensor.size(dim), tensor.narrow(dim, start, length), torch.cat(tensors, dim)
size(t, dim) == IF dim = 0 THEN Len(t) ELSE Len(t[1])
narrow(t, dim, start, length) ==
    IF dim = 0 THEN SubSeq(t, start + 1, start + length)
    ELSE [i \in 1..Len(t) |-> SubSeq(t[i], start + 1, start + length)]
RECURSIVE cat(_, _)
cat(tensors, dim) ==
    IF Len(tensors) = 1 THEN tensors[1]
    ELSE LET rest == cat(Tail(tensors), dim)
         IN  IF dim = 0 THEN tensors[1] \o rest
             ELSE [i \in 1..Len(tensors[1]) |-> tensors[1][i] \o rest[i]]

\* _shard_as, lines 46-55: the loop over dist_spec.dims; divide (lines 11-24)
\* asserts exact division
RECURSIVE shard_loop(_, _, _, _, _, _)
shard_loop(chunk, t, dist_spec, i, idx, num_parts) ==
    IF i > Len(dist_spec.dims) THEN [tensor |-> chunk, exc |-> "none"]
    ELSE LET dim == dist_spec.dims[i]
             parts == num_parts \div dist_spec.num_partitions[i]
         IN  IF size(t, dim) % dist_spec.num_partitions[i] # 0
             THEN [tensor |-> chunk, exc |-> "AssertionError"]
             ELSE LET chunk_size == size(t, dim) \div dist_spec.num_partitions[i]
                  IN  shard_loop(narrow(chunk, dim, (idx \div parts) * chunk_size, chunk_size),
                                 t, dist_spec, i + 1, idx % parts, parts)

shard_as(t, dist_spec, rank) ==
    shard_loop(t, t, dist_spec, 1, rank, prod(dist_spec.num_partitions))

\* (a variant that concatenates the gathered chunks dimension by dimension
\* from the first dim to the last)
RECURSIVE gather_loop(_, _, _)
MutGatherFirstDimFirst(buffer, old_dist_spec, i) ==
    IF i = 0 THEN buffer
    ELSE LET k == Len(old_dist_spec.dims) - i + 1
             dim == old_dist_spec.dims[k]
             num_parts == old_dist_spec.num_partitions[k]
             new_buffer == [b \in 1..(Len(buffer) \div num_parts) |->
                               cat(SubSeq(buffer, (b - 1) * num_parts + 1, b * num_parts), dim)]
         IN  gather_loop(new_buffer, old_dist_spec, i - 1)

\* _gather, lines 61-67: from the last dim to the first, concatenate every
\* num_parts consecutive buffers along the dim
gather_loop(buffer, old_dist_spec, i) ==
    IF i = 0 THEN buffer
    ELSE LET dim == old_dist_spec.dims[i]
             num_parts == old_dist_spec.num_partitions[i]
             new_buffer == [b \in 1..(Len(buffer) \div num_parts) |->
                               cat(SubSeq(buffer, (b - 1) * num_parts + 1, b * num_parts), dim)]
         IN  gather_loop(new_buffer, old_dist_spec, i - 1)

\* _gather, lines 58-69: all_gather fills the buffer in rank order
gather(locals, old_dist_spec) ==
    LET buffer == gather_loop([k \in 1..DSWorld |-> locals[k - 1]], old_dist_spec,
                              Len(old_dist_spec.dims))
    IN  IF Len(buffer) = 1 THEN [tensor |-> buffer[1], exc |-> "none"]
        ELSE [tensor |-> <<>>, exc |-> "AssertionError"]

\* a handler run on every rank: the tensors the ranks hold afterwards
OnEveryRank(results, locals) ==
    IF \E r \in DSRanks : results[r].exc # "none"
    THEN [locals |-> locals, exc |-> results[CHOOSE r \in DSRanks : results[r].exc # "none"].exc]
    ELSE [locals |-> [r \in DSRanks |-> results[r].tensor], exc |-> "none"]

\* _all_to_all, lines 72-85.  The receive buffers have the floor-divided
\* shape and tensor_split never fails, so with a scatter dimension that
\* world_size does not divide the collective runs on chunks of other sizes
\* than the buffers: it fails in the backend or goes on with uneven chunks.
all_to_all(locals, old_dist_spec, dist_spec, mismatch) ==
    LET group_size == DSWorld
        gather_dim == old_dist_spec.dims[1]
        scatter_dim == dist_spec.dims[1]
        chunk_size == size(locals[0], scatter_dim) \div group_size
        scatter_list == [r \in DSRanks |->
                            [k \in 1..group_size |->
                                narrow(locals[r], scatter_dim, (k - 1) * chunk_size, chunk_size)]]
        gather_list == [r \in DSRanks |-> [k \in 1..group_size |-> scatter_list[k - 1][r + 1]]]
    IN  IF size(locals[0], scatter_dim) % group_size # 0
        THEN [locals |-> locals, exc |-> mismatch]
        ELSE [locals |-> [r \in DSRanks |-> cat(gather_list[r], gather_dim)], exc |-> "none"]

\* _r2r, lines 88-92
r2r(locals, old_dist_spec, dist_spec) ==
    IF /\ old_dist_spec.process_group # NoGroup
       /\ old_dist_spec.process_group # dist_spec.process_group
       /\ dist_spec.process_group # NoGroup
    THEN [locals |-> locals, exc |-> "NotImplementedError"]
    ELSE [locals |-> locals, exc |-> "none"]

\* (a variant that shards without comparing the process groups)
MutR2SNoGroupCheck(locals, old_dist_spec, dist_spec) ==
    OnEveryRank([r \in DSRanks |-> shard_as(locals[r], dist_spec, r)], locals)

\* _r2s, lines 95-98
r2s(locals, old_dist_spec, dist_spec) ==
    IF /\ old_dist_spec.process_group # NoGroup
       /\ old_dist_spec.process_group # dist_spec.process_group
    THEN [locals |-> locals, exc |-> "NotImplementedError"]
    ELSE OnEveryRank([r \in DSRanks |-> shard_as(locals[r], dist_spec, r)], locals)

\* _s2r, lines 101-105
s2r(locals, old_dist_spec, dist_spec) ==
    IF /\ old_dist_spec.process_group # dist_spec.process_group
       /\ dist_spec.process_group # NoGroup
    THEN [locals |-> locals, exc |-> "NotImplementedError"]
    ELSE OnEveryRank([r \in DSRanks |-> gather(locals, old_dist_spec)], locals)

\* _s2s, lines 108-117
s2s(locals, old_dist_spec, dist_spec, mismatch) ==
    IF old_dist_spec.process_group # dist_spec.process_group
    THEN [locals |-> locals, exc |-> "NotImplementedError"]
    ELSE IF old_dist_spec = dist_spec
    THEN [locals |-> locals, exc |-> "none"]
    ELSE IF Len(old_dist_spec.dims) = 1 /\ Len(dist_spec.dims) = 1
    THEN all_to_all(locals, old_dist_spec, dist_spec, mismatch)
    ELSE LET gathered == OnEveryRank([r \in DSRanks |-> gather(locals, old_dist_spec)], locals)
         IN  IF gathered.exc # "none" THEN gathered
             ELSE OnEveryRank([r \in DSRanks |-> shard_as(gathered.locals[r], dist_spec, r)],
                              locals)

\* handle_trans_spec, lines 120-126: the forward handler is picked by the two
\* placements; with or without the autograd function it is what runs
handle_trans_spec(locals, old_dist_spec, dist_spec, mismatch) ==
    IF old_dist_spec.placement = "r" /\ dist_spec.placement = "r"
    THEN r2r(locals, old_dist_spec, dist_spec)
    ELSE IF old_dist_spec.placement = "r"
    THEN r2s(locals, old_dist_spec, dist_spec)
    ELSE IF dist_spec.placement = "r"
    THEN s2r(locals, old_dist_spec, dist_spec)
    ELSE s2s(locals, old_dist_spec, dist_spec, mismatch)

\* The logical tensors: rows x cols, every element a different number.
LogicalTensor(rows, cols) == [i \in 1..rows |-> [j \in 1..cols |-> (i - 1) * cols + j]]

\* every sharded dimension's size is divisible by its partition count
Divisible(dist_spec, t) ==
    \A k \in 1..Len(dist_spec.dims) :
        size(t, dist_spec.dims[k]) % dist_spec.num_partitions[k] = 0

\* the block of dimension dim that rank holds under dist_spec: its index and
\* the number of blocks (ranks are numbered with the first sharded dim slowest)
block(dist_spec, rank, dim) ==
    IF \E k \in 1..Len(dist_spec.dims) : dist_spec.dims[k] = dim
    THEN LET k == CHOOSE k \in 1..Len(dist_spec.dims) : dist_spec.dims[k] = dim
             below == prod(SubSeq(dist_spec.num_partitions, k + 1, Len(dist_spec.dims)))
         IN  [idx |-> (rank \div below) % dist_spec.num_partitions[k],
              parts |-> dist_spec.num_partitions[k]]
    ELSE [idx |-> 0, parts |-> 1]

\* the tensor rank holds when the logical tensor t is laid out under dist_spec
held(t, dist_spec, rank) ==
    LET b0 == block(dist_spec, rank, 0)
        b1 == block(dist_spec, rank, 1)
        rows == size(t, 0) \div b0.parts
        cols == size(t, 1) \div b1.parts
    IN  [i \in 1..rows |-> [j \in 1..cols |-> t[b0.idx * rows + i][b1.idx * cols + j]]]

InitDS ==
    /\ \E rows \in DSSizes, cols \in DSSizes : ds_tensor = LogicalTensor(rows, cols)
    /\ \E first \in DistSpecs :
          /\ Divisible(first, ds_tensor)
          /\ ds_path = <<first>>
          /\ ds_local = [r \in DSRanks |-> held(ds_tensor, first, r)]
    /\ ds_orig = ds_local
    /\ ds_outcome = "ok"
    /\ ParkZero /\ ParkGrad /\ ParkST /\ ParkNH /\ ParkRC /\ ParkEmb /\ ParkLd /\ ParkSv /\ ParkSq /\ ParkAG

\* every rank calls handle_trans_spec(tensor, old_dist_spec, dist_spec), the
\* old spec being the one the tensor is held under
HandleTransSpec ==
    /\ ds_outcome = "ok" /\ Len(ds_path) < 3
    /\ \E dist_spec \in DistSpecs, mismatch \in {"RuntimeError", "uneven chunks"} :
          LET r == handle_trans_spec(ds_local, ds_path[Len(ds_path)], dist_spec, mismatch)
          IN  /\ ds_local' = r.locals
              /\ ds_outcome' = IF r.exc = "none" THEN "ok" ELSE r.exc
              /\ ds_path' = Append(ds_path, dist_spec)
    /\ UNCHANGED <<ds_tensor, ds_orig, zvars, gvars, stvars, nhvars, rcvars, embvars, ldvars,
                   svvars, sqvars, agvars>>

NextDS == HandleTransSpec

SpecDS == InitDS /\ [][NextDS]_vars

\* the last call of handle_trans_spec: the spec the tensor was held under and
\* the spec asked for
called == Len(ds_path) >= 2
old_spec == ds_path[Len(ds_path) - 1]
new_spec == ds_path[Len(ds_path)]

\* the handler of the pair of placements compares the two process groups and
\* finds them different
GroupsRejected ==
    /\ old_spec.process_group # new_spec.process_group
    /\ old_spec.process_group # NoGroup
    /\ new_spec.process_group # NoGroup

\* the last call had to split a dimension whose size its partition count does
\* not divide: of the logical tensor in _shard_as, of the local tensor in
\* _all_to_all
SplitsUnevenly ==
    /\ called /\ ~GroupsRejected
    /\ new_spec.placement = "s" /\ old_spec # new_spec
    /\ IF old_spec.placement = "s" /\ Len(old_spec.dims) = 1 /\ Len(new_spec.dims) = 1
       THEN size(held(ds_tensor, old_spec, 0), new_spec.dims[1]) % DSWorld # 0
       ELSE ~Divisible(new_spec, ds_tensor)

\* C14 as stated (refuted): whenever a transform has to split a dimension of
\* size n into p partitions with n % p # 0, ShardingNotDivisibleError is
\* raised.
C14_RaisesShardingNotDivisible ==
    SplitsUnevenly => ds_outcome = "ShardingNotDivisibleError"

\* C15 as stated (refuted): whenever the process groups of the two specs are
\* not the same, handle_trans_spec raises NotImplementedError.
C15_RaisesOnDifferentGroups ==
    (called /\ old_spec.process_group # new_spec.process_group)
        => ds_outcome = "NotImplementedError"

\* C15, amended: for every placement pair handle_trans_spec raises
\* NotImplementedError, with no tensor changed, whenever the process groups of
\* the two specs are both given and differ; when one of them is None (a
\* replicate spec without a group) it raises no NotImplementedError.
C15_RaisesOnDifferentGivenGroups ==
    [][Len(ds_path') > Len(ds_path) =>
          IF /\ ds_path[Len(ds_path)].process_group # ds_path'[Len(ds_path')].process_group
             /\ ds_path[Len(ds_path)].process_group # NoGroup
             /\ ds_path'[Len(ds_path')].process_group # NoGroup
          THEN ds_outcome' = "NotImplementedError" /\ ds_local' = ds_local
          ELSE ds_outcome' # "NotImplementedError"]_vars

\* a transform from a sharded spec to a sharded spec of another group was
\* rejected, after a transform from a replicate spec without a group went
\* through
C15_Witness ==
    /\ Len(ds_path) = 3
    /\ ds_path[1].placement = "r" /\ ds_path[1].process_group = NoGroup
    /\ ds_path[2].placement = "s" /\ ds_path[3].placement = "s"
    /\ ds_path[2].process_group # ds_path[3].process_group
    /\ ds_outcome = "NotImplementedError"

\* C16: two transforms A -> B -> A over one process group, B replicate or
\* divisible, leave every rank with exactly the tensor it held under A; after
\* every transform every rank holds its part of the logical tensor under the
\* new spec, in the original element order.
C16_RoundTrip ==
    /\ (called /\ ds_outcome = "ok") =>
          \A r \in DSRanks : ds_local[r] = held(ds_tensor, new_spec, r)
    /\ (Len(ds_path) = 3 /\ ds_outcome = "ok" /\ ds_path[3] = ds_path[1]) =>
          ds_local = ds_orig

\* a tensor sharded over two dims was replicated and sharded back
C16_Witness ==
    /\ Len(ds_path) = 3 /\ ds_outcome = "ok"
    /\ ds_path[3] = ds_path[1]
    /\ Len(ds_path[1].dims) = 2
    /\ ds_path[2].placement = "r"
    /\ ds_local[1] # ds_local[2]


(***************************************************************************)
(* SpecLoad: LowLevelZeroCheckpointIO.load_sharded_optimizer               *)
(* (low_level_zero_plugin.py, lines 103-116).  The base class              *)
(* (TorchDDPCheckpointIO, outside the sources) loads the whole state of    *)
(* every parameter on every rank; each rank then keeps its piece of every  *)
(* state tensor but 'step'.  A flattened tensor is the sequence of its     *)
(* elements.                                                               *)
(***************************************************************************)
MaxNumel == 10      \* elements of the state tensor
MaxWorldSize == 4   \* coordinator.world_size

LdRanks == 0..(ld_world_size - 1)

\* torch.nn.functional.pad(v, [0, padding_size]): zeros appended
pad(v, padding_size) == v \o [i \in 1..padding_size |-> 0]

\* v.split(split_size): consecutive pieces of split_size elements, the last
\* one shorter when split_size does not divide the length
split(v, split_size) ==
    [k \in 1..((Len(v) + split_size - 1) \div split_size) |->
        SubSeq(v, (k - 1) * split_size + 1,
               IF k * split_size < Len(v) THEN k * split_size ELSE Len(v))]

\* (a variant that pads by world_size - numel % world_size, a whole extra
\* piece when world_size divides numel)
MutPadAlways(v, rank, world) ==
    LET padding_size == world - (Len(v) % world)
        padded == IF padding_size > 0 THEN pad(v, padding_size) ELSE v
        v_list == split(padded, Len(padded) \div world)
    IN  v_list[rank + 1]

\* lines 109-116: the piece of state tensor v that the rank keeps
local_piece(v, rank, world) ==
    LET padding_size == (world - (Len(v) % world)) % world
        padded == IF padding_size > 0 THEN pad(v, padding_size) ELSE v
        v_list == split(padded, Len(padded) \div world)
    IN  v_list[rank + 1]

\* lines 105-116 on one rank: every tensor whose key is not 'step' is
\* replaced by the rank's piece
load_sharded_optimizer(state, rank, world) ==
    [k \in DOMAIN state |->
        IF state[k].is_tensor /\ k # "step"
        THEN [is_tensor |-> TRUE, data |-> local_piece(state[k].data, rank, world)]
        ELSE state[k]]

\* The state of a parameter: 'step' (a tensor or a number) and a moment.
StateDicts ==
    {[step |-> [is_tensor |-> t, data |-> <<7>>],
      exp_avg |-> [is_tensor |-> TRUE, data |-> [i \in 1..n |-> i]]] :
        t \in BOOLEAN, n \in 1..MaxNumel}

InitLoad ==
    /\ ld_world_size \in 1..MaxWorldSize
    /\ ld_checkpoint \in StateDicts
    /\ ld_state = [r \in LdRanks |-> ld_checkpoint]
    /\ ld_done = [r \in LdRanks |-> FALSE]
    /\ ParkZero /\ ParkGrad /\ ParkST /\ ParkNH /\ ParkRC /\ ParkEmb /\ ParkDS /\ ParkSv /\ ParkSq /\ ParkAG

LoadShardedOptimizer ==
    /\ \E rank \in LdRanks :
          /\ ~ld_done[rank]
          /\ ld_state' = [ld_state EXCEPT
                             ![rank] = load_sharded_optimizer(ld_state[rank], rank, ld_world_size)]
          /\ ld_done' = [ld_done EXCEPT ![rank] = TRUE]
    /\ UNCHANGED <<ld_world_size, ld_checkpoint, zvars, gvars, stvars, nhvars, rcvars,
                   embvars, dsvars, svvars, sqvars, agvars>>

NextLoad == LoadShardedOptimizer

SpecLoad == InitLoad /\ [][NextLoad]_vars

\* the pieces of ranks 0..upto, concatenated
RECURSIVE concat_pieces(_)
concat_pieces(upto) ==
    IF upto < 0 THEN <<>> ELSE concat_pieces(upto - 1) \o ld_state[upto].exp_avg.data

MaxSaveRanks == 2   \* ranks that save
MaxParams == 3      \* parameters of the optimizer

SaveRanks == 0..(MaxSaveRanks - 1)
ParamIds == 0..(MaxParams - 1)

\* DistCoordinator.is_master(): the rank 0 of the default group
is_master(rank) == rank = 0

\* A file name is its stem and the number in it, 0 when it has none.
\* get_optimizer_base_filenames(prefix)
states_name == <<"pytorch_optim.bin", 0>>
save_index_file == <<"pytorch_optim.bin.index.json", 0>>
param_group_file == <<"pytorch_optim_group.bin", 0>>

\* get_shard_filename(states_name, idx): pytorch_optim-0000<idx + 1>.bin
get_shard_filename(name, idx) == <<name[1], idx + 1>>

\* str(param_id)
str(param_id) == ToString(param_id)

\* CheckpointIndexFile(checkpoint): no metadata, no weight map
NoFile == <<"", 0>>
NoSize == -1
CheckpointIndexFile ==
    [metadata |-> [param_groups |-> NoFile, total_size |-> NoSize], weight_map |-> {}]

\* CheckpointIndexFile.append_meta_data(name, val)
append_meta_data(index_file, name, val) ==
    IF name = "param_groups"
    THEN [index_file EXCEPT !.metadata.param_groups = val]
    ELSE [index_file EXCEPT !.metadata.total_size = val]

\* CheckpointIndexFile.append_weight_map(param_name, shard_file)
append_weight_map(index_file, param_name, shard_file) ==
    [index_file EXCEPT
        !.weight_map = {e \in @ : e[1] # param_name} \cup {<<param_name, shard_file>>}]

\* lines 88-89: the ids of the shard enter the weight map
RECURSIVE append_shard(_, _, _)
append_shard(index_file, ids, shard_file) ==
    IF ids = {} THEN index_file
    ELSE LET param_id == CHOOSE p \in ids : \A q \in ids : p <= q
         IN  append_shard(append_weight_map(index_file, str(param_id), shard_file),
                          ids \ {param_id}, shard_file)

\* one write of a file by a rank: the states or the index put in the file
write(written, rank, file, states, index_file) ==
    written \cup {[file |-> file, rank |-> rank, states |-> states, index |-> index_file]}

\* line 80: save_param_groups(state_dict, group_file_path), on every rank
save_param_groups(written, rank) ==
    write(written, rank, param_group_file, {}, CheckpointIndexFile)

\* (a variant in which every rank saves the shard)
MutEveryRankSavesShard(written, rank, state_shard, shard_file) ==
    write(written, rank, shard_file, state_shard, CheckpointIndexFile)

\* lines 92-93: the master saves the shard
save_shard(written, rank, state_shard, shard_file) ==
    IF is_master(rank) THEN write(written, rank, shard_file, state_shard, CheckpointIndexFile)
    ELSE written

\* lines 97-98: the master writes the index file
write_index_file(written, rank, index_file) ==
    IF is_master(rank) THEN write(written, rank, save_index_file, {}, index_file)
    ELSE written

\* state_dict_shard(max_shard_size): the states of the parameters cut into
\* consecutive shards, the same shards on every rank
RECURSIVE cut(_, _, _)
cut(first, last, ends) ==
    IF first > last THEN <<>>
    ELSE LET e == CHOOSE x \in ends \cup {last} :
                      x >= first /\ \A y \in ends \cup {last} : y >= first => x <= y
         IN  <<first..e>> \o cut(e + 1, last, ends)

ShardedStates ==
    {cut(0, n - 1, ends) : n \in 0..MaxParams, ends \in SUBSET ParamIds}

InitSave ==
    /\ sv_isfile \in BOOLEAN
    /\ sv_sharded \in ShardedStates
    /\ sv_pc = [r \in SaveRanks |-> [at |-> "call", idx |-> 0, total_size |-> 0]]
    /\ sv_index = [r \in SaveRanks |-> CheckpointIndexFile]
    /\ sv_written = {}
    /\ ParkZero /\ ParkGrad /\ ParkST /\ ParkNH /\ ParkRC /\ ParkEmb /\ ParkDS /\ ParkLd /\ ParkSq /\ ParkAG

\* lines 62-80: the path check, the directory, the index file and the group file
SaveBegin ==
    /\ \E rank \in SaveRanks :
          /\ sv_pc[rank].at = "call"
          /\ IF sv_isfile
             THEN /\ sv_pc' = [sv_pc EXCEPT ![rank].at = "returned"]
                  /\ UNCHANGED <<sv_index, sv_written>>
             ELSE /\ sv_pc' = [sv_pc EXCEPT ![rank].at = "shards"]
                  /\ sv_index' = [sv_index EXCEPT
                         ![rank] = append_meta_data(CheckpointIndexFile, "param_groups",
                                                    param_group_file)]
                  /\ sv_written' = save_param_groups(sv_written, rank)
    /\ UNCHANGED <<sv_isfile, sv_sharded, zvars, gvars, stvars, nhvars, rcvars, embvars,
                   dsvars, ldvars, sqvars, agvars>>

\* lines 84-93: one turn of the loop over the shards
SaveShard ==
    /\ \E rank \in SaveRanks :
          /\ sv_pc[rank].at = "shards"
          /\ sv_pc[rank].idx < Len(sv_sharded)
          /\ LET idx == sv_pc[rank].idx
                 state_shard == sv_sharded[idx + 1]
                 shard_file == get_shard_filename(states_name, idx)
             IN  /\ sv_index' = [sv_index EXCEPT
                        ![rank] = append_shard(@, state_shard, shard_file)]
                 /\ sv_written' = save_shard(sv_written, rank, state_shard, shard_file)
                 /\ sv_pc' = [sv_pc EXCEPT
                        ![rank].idx = idx + 1,
                        ![rank].total_size = @ + Cardinality(state_shard)]
    /\ UNCHANGED <<sv_isfile, sv_sharded, zvars, gvars, stvars, nhvars, rcvars, embvars,
                   dsvars, ldvars, sqvars, agvars>>

\* lines 96-98: the total size and the index file
SaveWrapUp ==
    /\ \E rank \in SaveRanks :
          /\ sv_pc[rank].at = "shards"
          /\ sv_pc[rank].idx = Len(sv_sharded)
          /\ LET index_file == append_meta_data(sv_index[rank], "total_size",
                                                sv_pc[rank].total_size)
             IN  /\ sv_index' = [sv_index EXCEPT ![rank] = index_file]
                 /\ sv_written' = write_index_file(sv_written, rank, index_file)
          /\ sv_pc' = [sv_pc EXCEPT ![rank].at = "returned"]
    /\ UNCHANGED <<sv_isfile, sv_sharded, zvars, gvars, stvars, nhvars, rcvars, embvars,
                   dsvars, ldvars, sqvars, agvars>>

NextSave == SaveBegin \/ SaveShard \/ SaveWrapUp

SpecSave == InitSave /\ [][NextSave]_vars

\* the ranks that wrote the file
writers(file) == {w.rank : w \in {x \in sv_written : x.file = file}}
\* the files of the shards
shard_files == {get_shard_filename(states_name, i) : i \in 0..(Len(sv_sharded) - 1)}
all_returned == \A r \in SaveRanks : sv_pc[r].at = "returned"

\* C18: when all ranks run save_sharded_optimizer on the same checkpoint
\* directory, no rank but the coordinator master ever writes a shard file or
\* the index file; once every rank has returned, each shard file and the index
\* file have been written by exactly one rank, the master, and the index maps
\* every parameter id of every shard to the name of the file of that shard.
C18_MasterWritesShardsAndIndex ==
    ~sv_isfile =>
        /\ \A w \in sv_written :
              w.file \in shard_files \cup {save_index_file} => is_master(w.rank)
        /\ all_returned =>
              /\ \A f \in shard_files \cup {save_index_file} :
                    /\ writers(f) = {0}
                    /\ Cardinality({w \in sv_written : w.file = f}) = 1
              /\ \A w \in sv_written : w.file = save_index_file =>
                    \A i \in 1..Len(sv_sharded) : \A p \in sv_sharded[i] :
                        /\ <<ToString(p), get_shard_filename(states_name, i - 1)>>
                               \in w.index.weight_map
                        /\ \A e \in w.index.weight_map :
                              e[1] = ToString(p) => e[2] = <<states_name[1], i>>
              /\ \A i \in 1..Len(sv_sharded) :
                    \E w \in sv_written :
                        w.file = <<states_name[1], i>> /\ w.states = sv_sharded[i]

\* two ranks have saved an optimizer of two shards
C18_Witness ==
    /\ ~sv_isfile
    /\ Len(sv_sharded) = 2
    /\ all_returned
    /\ writers(save_index_file) = {0}
    /\ writers(param_group_file) = SaveRanks

\* C29 as stated (refuted): when all ranks run save_sharded_optimizer on the
\* same checkpoint directory, no file path is written by more than one rank,
\* the param-groups file no more than the shard files and the index file.
C29_OneWriterPerFile ==
    \A file \in {w.file : w \in sv_written} : Cardinality(writers(file)) <= 1

\* two ranks have written the param-groups file
C29_GroupFileWrittenTwice ==
    /\ ~sv_isfile
    /\ Cardinality(writers(param_group_file)) = 2
    /\ \A file \in shard_files \cup {save_index_file} : Cardinality(writers(file)) <= 1


(***************************************************************************)
(* SpecStream: the CUDA streams of one backward pass                       *)
(* (zero_stage3_develop.py, _post_backward_hook lines 584-637 and          *)
(* _final_backward_hook lines 699-705, _finalize_parameters lines 716-747).*)
(* The host queues kernels on the current (default) stream and on the      *)
(* post_backward stream; the device runs each stream in order, the streams *)
(* in any order, and a kernel queued after stream.wait_stream(other) only  *)
(* once the work queued on `other` at the time of the call is done.        *)
(* torch.cuda and ReduceScatterBucketer are outside the sources.           *)
(***************************************************************************)
MaxStreamParams == 2    \* parameters with a gradient in the pass

StreamParams == 1..MaxStreamParams
Streams == {"current", "post_backward"}

Kernel(k, p) == [k |-> k, p |-> p]
Call(ev, p) == [ev |-> ev, p |-> p]

\* the kernels queued on a stream, on any stream: not yet run
queued(c, stream) == {c.queue[stream][i].op : i \in 1..Len(c.queue[stream])}
pending(c) == UNION {queued(c, stream) : stream \in Streams}

\* a kernel launch on a stream
launch(c, stream, op) ==
    [c EXCEPT !.queue[stream] =
        Append(@, [op |-> op, after |-> c.barrier[stream] \cap pending(c)])]

\* torch.cuda.Stream.wait_stream: waiter.wait_stream(waited)
wait_stream(c, waiter, waited) ==
    [c EXCEPT !.barrier[waiter] = (@ \cap pending(c)) \cup queued(c, waited)]

\* ReduceScatterBucketer.flush, under torch.cuda.stream(post_backward): one
\* reduce-scatter per tensor in the bucket
RECURSIVE flush_streams(_)
flush_streams(c) ==
    IF c.bucket = <<>> THEN c
    ELSE flush_streams(launch([c EXCEPT !.bucket = Tail(@)], "post_backward",
                              Kernel("reduce_scatter", Head(c.bucket))))

\* ReduceScatterBucketer.reduce_scatter_async, under
\* torch.cuda.stream(post_backward): reduced at once, or copied into the
\* bucket, after the bucket was flushed when it had no room
reduce_scatter_async_streams(c, p, mode) ==
    IF mode = "now" THEN launch(c, "post_backward", Kernel("reduce_scatter", p))
    ELSE LET c1 == IF mode = "spill" THEN flush_streams(c) ELSE c
         IN  [launch(c1, "post_backward", Kernel("copy", p)) EXCEPT !.bucket = Append(@, p)]

\* (a variant in which the post_backward stream waits after the launches)
MutHookWaitsLast(h, p, mode, cfg) ==
    IF ~cfg.require_backward_grad_sync THEN h
    ELSE LET c2 == IF cfg.gradient_predivide_factor > 1
                   THEN launch(h.cuda, "post_backward", Kernel("div_", p)) ELSE h.cuda
             l2 == IF cfg.gradient_predivide_factor > 1
                   THEN Append(h.log, Call("div_", p)) ELSE h.log
             c3 == reduce_scatter_async_streams(c2, p, mode)
             l3 == Append(l2, Call("reduce_scatter_async", p))
         IN  [cuda |-> wait_stream(c3, "post_backward", "current"),
              log |-> Append(l3, Call("post_backward.wait_stream(current)", p))]

\* _post_backward_hook, lines 584-637, for a sharded parameter with a gradient
post_backward_hook_streams(h, p, mode, cfg) ==
    IF ~cfg.require_backward_grad_sync THEN h
    ELSE LET c1 == wait_stream(h.cuda, "post_backward", "current")
             l1 == Append(h.log, Call("post_backward.wait_stream(current)", p))
             c2 == IF cfg.gradient_predivide_factor > 1
                   THEN launch(c1, "post_backward", Kernel("div_", p)) ELSE c1
             l2 == IF cfg.gradient_predivide_factor > 1
                   THEN Append(l1, Call("div_", p)) ELSE l1
             c3 == reduce_scatter_async_streams(c2, p, mode)
             l3 == Append(l2, Call("reduce_scatter_async", p))
         IN  [cuda |-> c3, log |-> l3]

\* _finalize_parameters, lines 716-747: p.grad = p.zero_saved_grad_shard for
\* the parameters in ps, in order
RECURSIVE finalize_parameters_streams(_, _)
finalize_parameters_streams(log, ps) ==
    IF ps = <<>> THEN log
    ELSE finalize_parameters_streams(Append(log, Call("rebind", Head(ps))), Tail(ps))

\* (a variant in which the current stream waits before the flush)
MutFinalWaitsBeforeFlush(h, ps, cfg) ==
    IF ~cfg.require_backward_grad_sync THEN h
    ELSE LET c1 == wait_stream(h.cuda, "current", "post_backward")
             l1 == Append(h.log, Call("current.wait_stream(post_backward)", 0))
             c2 == flush_streams(c1)
             l2 == Append(l1, Call("flush", 0))
         IN  [cuda |-> c2, log |-> finalize_parameters_streams(l2, ps)]

\* _final_backward_hook, lines 699-705 and 757-759; ps: the parameters with a
\* saved gradient shard
final_backward_hook_streams(h, ps, cfg) ==
    IF ~cfg.require_backward_grad_sync THEN h
    ELSE LET c1 == flush_streams(h.cuda)
             l1 == Append(h.log, Call("flush", 0))
             c2 == wait_stream(c1, "current", "post_backward")
             l2 == Append(l1, Call("current.wait_stream(post_backward)", 0))
         IN  [cuda |-> c2, log |-> finalize_parameters_streams(l2, ps)]

\* the parameters in increasing order
RECURSIVE in_order(_)
in_order(ps) ==
    IF ps = {} THEN <<>>
    ELSE LET q == CHOOSE x \in ps : \A y \in ps : x <= y
         IN  <<q>> \o in_order(ps \ {q})

StreamConfigs ==
    [require_backward_grad_sync : BOOLEAN,
     gradient_predivide_factor : {1, 2}]

InitStream ==
    /\ sq_config \in StreamConfigs
    /\ sq_host = [p \in StreamParams |-> "waiting"]
    /\ sq_final = [ran |-> FALSE, stepped |-> FALSE]
    /\ sq_cuda = [queue |-> [s \in Streams |-> <<>>],
                  barrier |-> [s \in Streams |-> {}],
                  bucket |-> <<>>]
    /\ sq_log = <<>>
    /\ sq_ran = {}
    /\ ParkZero /\ ParkGrad /\ ParkST /\ ParkNH /\ ParkRC /\ ParkEmb /\ ParkDS /\ ParkLd /\ ParkSv /\ ParkAG

\* the gradient accumulator of p runs: autograd queues the kernels that
\* produce the gradient of p on the current stream, then the hook fires
StreamPostBackwardHook ==
    /\ \E p \in StreamParams, mode \in BucketModes :
          /\ sq_host[p] = "waiting"
          /\ ~sq_final.ran
          /\ mode = "spill" => sq_cuda.bucket # <<>>
          /\ LET c == launch(sq_cuda, "current", Kernel("grad", p))
                 h == post_backward_hook_streams([cuda |-> c, log |-> sq_log], p, mode,
                                                 sq_config)
             IN  sq_cuda' = h.cuda /\ sq_log' = h.log
          /\ sq_host' = [sq_host EXCEPT ![p] = "hooked"]
    /\ UNCHANGED <<sq_config, sq_final, sq_ran>>
    /\ UNCHANGED <<zvars, gvars, stvars, nhvars, rcvars, embvars, dsvars, ldvars, svvars, agvars>>

\* the engine runs the final backward callback once no gradient is awaited
StreamFinalBackwardHook ==
    /\ ~sq_final.ran
    /\ \E p \in StreamParams : sq_host[p] = "hooked"
    /\ LET ps == in_order({p \in StreamParams : sq_host[p] = "hooked"})
           h == final_backward_hook_streams([cuda |-> sq_cuda, log |-> sq_log], ps, sq_config)
       IN  sq_cuda' = h.cuda /\ sq_log' = h.log
    /\ sq_final' = [sq_final EXCEPT !.ran = TRUE]
    /\ UNCHANGED <<sq_config, sq_host, sq_ran>>
    /\ UNCHANGED <<zvars, gvars, stvars, nhvars, rcvars, embvars, dsvars, ldvars, svvars, agvars>>

\* optimizer.step(): kernels on the current stream read the gradients
OptimizerStep ==
    /\ sq_final.ran /\ ~sq_final.stepped
    /\ LET RECURSIVE steps(_, _)
           steps(c, ps) == IF ps = <<>> THEN c
                           ELSE steps(launch(c, "current", Kernel("step", Head(ps))), Tail(ps))
       IN  sq_cuda' = steps(sq_cuda, in_order({p \in StreamParams : sq_host[p] = "hooked"}))
    /\ sq_final' = [sq_final EXCEPT !.stepped = TRUE]
    /\ UNCHANGED <<sq_config, sq_host, sq_log, sq_ran>>
    /\ UNCHANGED <<zvars, gvars, stvars, nhvars, rcvars, embvars, dsvars, ldvars, svvars, agvars>>

\* the device runs the next kernel of a stream
DeviceRuns ==
    /\ \E stream \in Streams :
          /\ sq_cuda.queue[stream] # <<>>
          /\ LET head == Head(sq_cuda.queue[stream])
             IN  /\ head.after \cap pending(sq_cuda) = {}
                 /\ sq_ran' = sq_ran \cup {head.op}
          /\ sq_cuda' = [sq_cuda EXCEPT !.queue[stream] = Tail(@)]
    /\ UNCHANGED <<sq_config, sq_host, sq_final, sq_log>>
    /\ UNCHANGED <<zvars, gvars, stvars, nhvars, rcvars, embvars, dsvars, ldvars, svvars, agvars>>

NextStream ==
    \/ StreamPostBackwardHook
    \/ StreamFinalBackwardHook
    \/ OptimizerStep
    \/ DeviceRuns

SpecStream == InitStream /\ [][NextStream]_vars

\* the place of a call in the host's log; 0: none
first_call(ev, p) ==
    IF \E i \in 1..Len(sq_log) : sq_log[i] = Call(ev, p)
    THEN CHOOSE i \in 1..Len(sq_log) :
            sq_log[i] = Call(ev, p) /\ \A j \in 1..(i - 1) : sq_log[j] # Call(ev, p)
    ELSE 0
\* the device runs the kernel in this step
runs(k, p) == Kernel(k, p) \in sq_ran' \ sq_ran

\* the host's order: the waits come where the claim puts them
HostOrder ==
    /\ \A i \in 1..Len(sq_log) :
          sq_log[i].ev \in {"div_", "reduce_scatter_async"} =>
             LET w == first_call("post_backward.wait_stream(current)", sq_log[i].p)
             IN  0 < w /\ w < i
    /\ \A i \in 1..Len(sq_log) :
          sq_log[i].ev = "rebind" =>
             \E f, w \in 1..Len(sq_log) :
                /\ f < w /\ w < i
                /\ sq_log[f].ev = "flush"
                /\ sq_log[w].ev = "current.wait_stream(post_backward)"
                /\ \A j \in (w + 1)..Len(sq_log) : sq_log[j].ev = "rebind"

\* what the waits are for: no kernel of the post_backward stream touches a
\* gradient before the kernels that produce it are done, and the optimizer
\* reads no gradient shard before its reduce-scatter is done
DeviceOrder ==
    \A p \in StreamParams :
       /\ \A k \in {"div_", "copy", "reduce_scatter"} :
             runs(k, p) => Kernel("grad", p) \in sq_ran
       /\ runs("step", p) => Kernel("reduce_scatter", p) \in sq_ran

\* C22: in the post-backward hook with sync enabled the post_backward stream
\* waits on the current stream before the gradient is pre-divided and before
\* any reduce-scatter is enqueued; in the final backward callback the current
\* stream waits on the post_backward stream after the bucketer flush and
\* before any .grad is rebound to its shard.
C22_StreamsWait ==
    [][sq_config.require_backward_grad_sync => HostOrder' /\ DeviceOrder]_vars

\* with sync and a pre-divide, a gradient has gone through the bucket, the
\* final callback has flushed, waited and rebound, and the optimizer's kernels
\* have run
C22_Witness ==
    /\ sq_config.require_backward_grad_sync
    /\ sq_config.gradient_predivide_factor > 1
    /\ Kernel("copy", 1) \in sq_ran
    /\ sq_final.stepped
    /\ first_call("rebind", 1) > 0
    /\ Kernel("div_", 1) \in sq_ran
    /\ Kernel("step", 1) \in sq_ran


(***************************************************************************)
(* SpecAG: DistSpecManager.handle_trans_spec with the autograd function    *)
(* TransformDistSpec and the no_grad() scopes (dist_spec_mgr.py, lines     *)
(* 27-38 and 88-135), at the level of the calls: which placement handler   *)
(* is called with which specs, through the autograd function or not, and   *)
(* which collectives it issues.  What the handlers do with the tensors is  *)
(* SpecDS above.                                                           *)
(***************************************************************************)

MaxGroupSize == 2       \* ranks of a process group
MaxTransforms == 2      \* calls of handle_trans_spec in a run
MaxScopes == 2          \* no_grad() scopes nested in each other

GroupSizes == 1..MaxGroupSize

\* the specs of a tensor over groups of group_size ranks
AGSpecs(group_size) ==
    {replicate(g) : g \in {"g1", NoGroup}} \cup
    {shard(g, d, <<group_size>>) : g \in ProcessGroups, d \in {<<0>>, <<1>>}} \cup
    {shard("g1", <<0, 1>>, <<group_size, 1>>)}

\* _shard_as, lines 45-54: narrows the local tensor, no collective
shard_as_comm == [comm |-> <<>>, out |-> "new", exc |-> "none"]

\* _gather, lines 57-69: one all_gather, the rest is local
gather_comm == [comm |-> <<"all_gather">>, out |-> "new", exc |-> "none"]

\* (a variant of _all_to_all without the shortcut of a group of one rank)
MutAllToAllAlways(group_size) ==
    [comm |-> <<"all_to_all">>, out |-> "new", exc |-> "none"]

\* _all_to_all, lines 72-85: a group of one rank gets its tensor back
all_to_all_comm(group_size) ==
    IF group_size = 1
    THEN [comm |-> <<>>, out |-> "input", exc |-> "none"]
    ELSE [comm |-> <<"all_to_all">>, out |-> "new", exc |-> "none"]

Raised(exc) == [comm |-> <<>>, out |-> "none", exc |-> exc]

\* _r2r, lines 88-92
r2r_comm(old_dist_spec, dist_spec) ==
    IF /\ old_dist_spec.process_group # NoGroup
       /\ old_dist_spec.process_group # dist_spec.process_group
       /\ dist_spec.process_group # NoGroup
    THEN Raised("NotImplementedError")
    ELSE [comm |-> <<>>, out |-> "input", exc |-> "none"]

\* _r2s, lines 95-98
r2s_comm(old_dist_spec, dist_spec) ==
    IF /\ old_dist_spec.process_group # NoGroup
       /\ old_dist_spec.process_group # dist_spec.process_group
    THEN Raised("NotImplementedError")
    ELSE shard_as_comm

\* _s2r, lines 101-105
s2r_comm(old_dist_spec, dist_spec) ==
    IF /\ old_dist_spec.process_group # dist_spec.process_group
       /\ dist_spec.process_group # NoGroup
    THEN Raised("NotImplementedError")
    ELSE gather_comm

\* _s2s, lines 108-117
s2s_comm(old_dist_spec, dist_spec, group_size) ==
    IF old_dist_spec.process_group # dist_spec.process_group
    THEN Raised("NotImplementedError")
    ELSE IF old_dist_spec = dist_spec
    THEN [comm |-> <<>>, out |-> "input", exc |-> "none"]
    ELSE IF Len(old_dist_spec.dims) = 1 /\ Len(dist_spec.dims) = 1
    THEN all_to_all_comm(group_size)
    ELSE [comm |-> gather_comm.comm \o shard_as_comm.comm, out |-> "new", exc |-> "none"]

\* getattr(DistSpecManager, f'_{a.placement.value}2{b.placement.value}'),
\* lines 121-122 and 125-126: the handler named by the two placements
trans_handle(a, b) == <<a.placement, b.placement>>

\* the call func(tensor, src, dst) of a handler picked by trans_handle
call_handle(func, src, dst, group_size, via) ==
    LET r == IF func = <<"r", "r">> THEN r2r_comm(src, dst)
             ELSE IF func = <<"r", "s">> THEN r2s_comm(src, dst)
             ELSE IF func = <<"s", "r">> THEN s2r_comm(src, dst)
             ELSE s2s_comm(src, dst, group_size)
    IN  [func |-> func, src |-> src, dst |-> dst, via |-> via,
         comm |-> r.comm, out |-> r.out, exc |-> r.exc]

\* TransformDistSpec.forward, lines 29-34: keeps the two specs and the
\* backward handler in ctx and calls the forward handler
TransformDistSpec_forward(old_dist_spec, dist_spec, forward_trans_func, backward_trans_func, group_size) ==
    [ctx |-> [old_dist_spec |-> old_dist_spec, dist_spec |-> dist_spec,
              backward_trans_func |-> backward_trans_func],
     call |-> call_handle(forward_trans_func, old_dist_spec, dist_spec, group_size,
                          "TransformDistSpec.forward")]

\* (a variant that hands the two specs to the backward handler in the order
\* of the forward)
MutBackwardKeepsOrder(ctx, group_size) ==
    call_handle(ctx.backward_trans_func, ctx.old_dist_spec, ctx.dist_spec, group_size,
                "TransformDistSpec.backward")

\* TransformDistSpec.backward, lines 36-38
TransformDistSpec_backward(ctx, group_size) ==
    call_handle(ctx.backward_trans_func, ctx.dist_spec, ctx.old_dist_spec, group_size,
                "TransformDistSpec.backward")

\* handle_trans_spec, lines 120-126: the call made and the node added to the
\* graph (none without the autograd function, none when the forward raises)
handle_trans_spec_calls(use_autograd_function, old_dist_spec, dist_spec, group_size) ==
    LET forward_trans_handle == trans_handle(old_dist_spec, dist_spec)
    IN  IF ~use_autograd_function
        THEN [call |-> call_handle(forward_trans_handle, old_dist_spec, dist_spec,
                                   group_size, "direct"),
              nodes |-> <<>>]
        ELSE LET backward_trans_handle == trans_handle(dist_spec, old_dist_spec)
                 f == TransformDistSpec_forward(old_dist_spec, dist_spec, forward_trans_handle,
                                                backward_trans_handle, group_size)
             IN  [call |-> f.call,
                  nodes |-> IF f.call.exc = "none" THEN <<f.ctx>> ELSE <<>>]

NoCall ==
    [func |-> <<"none", "none">>, src |-> replicate(NoGroup), dst |-> replicate(NoGroup),
     via |-> "none", comm |-> <<>>, out |-> "none", exc |-> "none"]

InitAG ==
    /\ ag_world \in GroupSizes
    /\ ag_spec \in AGSpecs(ag_world)
    /\ ag_use_autograd_function = TRUE
    /\ ag_scopes = 0
    /\ ag_tape = <<>>
    /\ ag_call = NoCall
    /\ ag_count = 0
    /\ ag_outcome = "ok"
    /\ ParkZero /\ ParkGrad /\ ParkST /\ ParkNH /\ ParkRC /\ ParkEmb /\ ParkDS /\ ParkLd /\ ParkSv
    /\ ParkSq

\* `with DistSpecManager.no_grad():` is entered, lines 131-133
NoGradEnter ==
    /\ ag_outcome = "ok" /\ ag_scopes < MaxScopes
    /\ ag_use_autograd_function' = FALSE
    /\ ag_scopes' = ag_scopes + 1
    /\ UNCHANGED <<ag_world, ag_spec, ag_tape, ag_call, ag_count, ag_outcome>>
    /\ UNCHANGED <<zvars, gvars, stvars, nhvars, rcvars, embvars, dsvars, ldvars, svvars, sqvars>>

\* the innermost no_grad() scope is left, by the end of its body or by an
\* exception of the body that is caught around it: the finally of lines
\* 134-135 runs in both cases
NoGradExit ==
    /\ ag_outcome = "ok" /\ ag_scopes > 0
    /\ ag_use_autograd_function' = TRUE
    /\ ag_scopes' = ag_scopes - 1
    /\ UNCHANGED <<ag_world, ag_spec, ag_tape, ag_call, ag_count, ag_outcome>>
    /\ UNCHANGED <<zvars, gvars, stvars, nhvars, rcvars, embvars, dsvars, ldvars, svvars, sqvars>>

\* handle_trans_spec(tensor, old_dist_spec, dist_spec) on the tensor held
\* under old_dist_spec; an exception of the handler leaves through every
\* scope that is open
HandleTransSpecCalls ==
    /\ ag_outcome = "ok" /\ ag_count < MaxTransforms
    /\ \E dist_spec \in AGSpecs(ag_world) :
          LET h == handle_trans_spec_calls(ag_use_autograd_function, ag_spec, dist_spec, ag_world)
              raised == h.call.exc # "none"
          IN  /\ ag_call' = h.call
              /\ ag_tape' = ag_tape \o h.nodes
              /\ ag_spec' = IF raised THEN ag_spec ELSE dist_spec
              /\ ag_outcome' = IF raised THEN h.call.exc ELSE "ok"
              /\ ag_scopes' = IF raised THEN 0 ELSE ag_scopes
              /\ ag_use_autograd_function' =
                    IF raised /\ ag_scopes > 0 THEN TRUE ELSE ag_use_autograd_function
    /\ ag_count' = ag_count + 1
    /\ UNCHANGED ag_world
    /\ UNCHANGED <<zvars, gvars, stvars, nhvars, rcvars, embvars, dsvars, ldvars, svvars, sqvars>>

\* autograd runs the youngest node of the graph that has not run yet
Backward ==
    /\ ag_outcome = "ok" /\ ag_tape # <<>>
    /\ LET ctx == ag_tape[Len(ag_tape)]
           call == TransformDistSpec_backward(ctx, ag_world)
       IN  /\ ag_call' = call
           /\ ag_outcome' = IF call.exc # "none" THEN call.exc ELSE "ok"
    /\ ag_tape' = SubSeq(ag_tape, 1, Len(ag_tape) - 1)
    /\ UNCHANGED <<ag_world, ag_spec, ag_use_autograd_function, ag_scopes, ag_count>>
    /\ UNCHANGED <<zvars, gvars, stvars, nhvars, rcvars, embvars, dsvars, ldvars, svvars, sqvars>>

NextAG ==
    \/ NoGradEnter
    \/ NoGradExit
    \/ HandleTransSpecCalls
    \/ Backward

SpecAG == InitAG /\ [][NextAG]_vars

\* the step is a call of handle_trans_spec; the step runs a node backward
Transforms == ag_count' = ag_count + 1
RunsBackward == ag_count' = ag_count /\ Len(ag_tape') < Len(ag_tape)

\* C23: with the autograd path enabled, handle_trans_spec(tensor, old, new)
\* calls as forward the old->new placement handler with (old, new) and
\* registers the new->old placement handler as the gradient function;
\* backward calls that handler with the specs swapped, new as source and old
\* as target, so that the gradient of R->S is S->R and the gradient of S->R
\* is R->S.
C23_BackwardIsReverseTransform ==
    [][/\ (Transforms /\ ag_use_autograd_function) =>
            /\ ag_call'.via = "TransformDistSpec.forward"
            /\ ag_call'.func = <<ag_spec.placement, ag_call'.dst.placement>>
            /\ ag_call'.src = ag_spec
            /\ ag_call'.exc = "none" =>
                  /\ Len(ag_tape') = Len(ag_tape) + 1
                  /\ ag_spec' = ag_call'.dst
                  /\ LET node == ag_tape'[Len(ag_tape')]
                     IN  /\ node.old_dist_spec = ag_spec /\ node.dist_spec = ag_spec'
                         /\ node.backward_trans_func = <<ag_spec'.placement, ag_spec.placement>>
       /\ RunsBackward =>
            LET node == ag_tape[Len(ag_tape)]
            IN  /\ ag_call'.via = "TransformDistSpec.backward"
                /\ ag_call'.func = <<node.dist_spec.placement, node.old_dist_spec.placement>>
                /\ ag_call'.src = node.dist_spec /\ ag_call'.dst = node.old_dist_spec
                /\ (node.old_dist_spec.placement = "r" /\ node.dist_spec.placement = "s")
                      => ag_call'.func = <<"s", "r">>
                /\ (node.old_dist_spec.placement = "s" /\ node.dist_spec.placement = "r")
                      => ag_call'.func = <<"r", "s">>]_vars

\* an R->S transform and an S->R transform went through the autograd
\* function and the backward of the younger one has run
C23_Witness ==
    /\ ag_count = 2 /\ Len(ag_tape) = 1 /\ ag_outcome = "ok"
    /\ ag_tape[1].old_dist_spec.placement = "r" /\ ag_tape[1].dist_spec.placement = "s"
    /\ ag_call.via = "TransformDistSpec.backward"
    /\ ag_call.func = <<"r", "s">>
    /\ ag_call.src.placement = "r" /\ ag_call.dst.placement = "s"

\* the step calls the S->S handler with two specs of one process group
CallsS2S ==
    /\ Transforms \/ RunsBackward
    /\ ag_call'.func = <<"s", "s">>
    /\ ag_call'.src.process_group = ag_call'.dst.process_group

\* C24 as stated (refuted): an S->S transform with equal process groups
\* returns the input with no communication when the two specs are equal;
\* otherwise, when both specs shard exactly one dimension, it issues exactly
\* one all-to-all and no all-gather; otherwise it all-gathers and re-shards.
C24_S2SCollectives ==
    [][CallsS2S =>
          IF ag_call'.src = ag_call'.dst
          THEN ag_call'.comm = <<>> /\ ag_call'.out = "input"
          ELSE IF Len(ag_call'.src.dims) = 1 /\ Len(ag_call'.dst.dims) = 1
          THEN ag_call'.comm = <<"all_to_all">>
          ELSE ag_call'.comm = <<"all_gather">> /\ ag_call'.out = "new"]_vars

\* C24, amended: an S->S transform with equal process groups returns the
\* input with no communication when the two specs are equal; otherwise, when
\* both specs shard exactly one dimension, it issues exactly one all-to-all
\* and no all-gather if the group has more than one rank, and returns the
\* input with no communication if the group has one rank; otherwise it
\* all-gathers and re-shards.
C24_S2SCollectivesInGroup ==
    [][CallsS2S =>
          IF ag_call'.src = ag_call'.dst
          THEN ag_call'.comm = <<>> /\ ag_call'.out = "input"
          ELSE IF Len(ag_call'.src.dims) = 1 /\ Len(ag_call'.dst.dims) = 1
          THEN IF ag_world = 1
               THEN ag_call'.comm = <<>> /\ ag_call'.out = "input"
               ELSE ag_call'.comm = <<"all_to_all">> /\ ag_call'.out = "new"
          ELSE ag_call'.comm = <<"all_gather">> /\ ag_call'.out = "new"]_vars

\* in a group of one rank a tensor sharded along dim 0 was transformed to a
\* spec that shards dim 1
C24_Witness ==
    /\ ag_world = 1 /\ ag_outcome = "ok"
    /\ ag_call.func = <<"s", "s">>
    /\ ag_call.src.process_group = ag_call.dst.process_group
    /\ ag_call.src.dims = <<0>> /\ ag_call.dst.dims = <<1>>
    /\ ag_call.comm = <<>>

\* C30 as stated (refuted): while at least one no_grad() scope is active,
\* the remainder of an outer scope after the exit of a nested one included,
\* handle_trans_spec calls the forward handler directly, without
\* TransformDistSpec; once the outermost scope has exited, normally or by
\* exception, the autograd path is enabled again.
C30_NoGradWhileScopeActive ==
    [][/\ (Transforms /\ ag_scopes > 0) => ag_call'.via = "direct"
       /\ (ag_scopes > 0 /\ ag_scopes' = 0) => ag_use_autograd_function']_vars

\* handle_trans_spec went through TransformDistSpec in the remainder of an
\* outer no_grad() scope
C30_AutogradInsideScope ==
    ag_scopes > 0 /\ ag_call.via = "TransformDistSpec.forward" /\ ag_use_autograd_function
====
